---------------------------- MODULE Spec2Model ----------------------------
(***************************************************************************)
(* A model of the editing core of arspaint: the layer stack with its       *)
(* cached composite (image_store.rs), the patch based undo/redo log        *)
(* (commands.rs), the stroke tools (tools/base.rs, rect.rs, ellipse.rs),   *)
(* the rectangular selection tool (tools/selection.rs), the transform tool *)
(* (tools/transform.rs) and the host handlers that drive them (ui.rs).     *)
(*                                                                         *)
(* Pixels are RGBA8 tuples <<r, g, b, a>>.  An image buffer is a record    *)
(* [w, h, px] with px a function on the pixel coordinates <<x, y>>.        *)
(* An Option is a sequence: None is <<>> and Some(v) is <<v>>.             *)
(* f32 positions are exact rationals <<nx, ny, d>> (the point nx/d, ny/d); *)
(* the inputs are chosen so that the f32 arithmetic of the code is exact   *)
(* on them (small integers and halves).                                    *)
(***************************************************************************)
EXTENDS Integers, Sequences, FiniteSets, TLC

(***************************************************************************)
(* Bounds of the model.                                                    *)
(***************************************************************************)
\* canvas size (the program starts at 800 x 600, ui.rs:32)
CanvasW == 3
CanvasH == 2
\* number of layers the layer panel may create
MaxLayers == 2
\* number of commands tools may emit in one run
MaxCommits == 2
\* pressed samples of one gesture
MaxSamples == 2

(***************************************************************************)
(* Options, pixels, buffers.                                               *)
(***************************************************************************)
None == <<>>
Some(v) == <<v>>
IsSome(o) == o # <<>>
Unwrap(o) == o[1]

Min(a, b) == IF a <= b THEN a ELSE b
Max(a, b) == IF a >= b THEN a ELSE b
Abs(a) == IF a >= 0 THEN a ELSE -a

RECURSIVE GCD(_, _)
GCD(a, b) == IF b = 0 THEN a ELSE GCD(b, a % b)

\* Rgba([0, 0, 0, 0]): what ImageBuffer::new fills a buffer with
Transparent == <<0, 0, 0, 0>>
White == <<255, 255, 255, 255>>
Black == <<0, 0, 0, 255>>
Red == <<255, 0, 0, 255>>

Coords(w, h) == (0 .. (w - 1)) \X (0 .. (h - 1))

\* ImageBuffer::from_pixel(w, h, p); ImageBuffer::new(w, h) is NewBuffer(w, h)
FromPixel(w, h, p) == [w |-> w, h |-> h, px |-> [c \in Coords(w, h) |-> p]]
NewBuffer(w, h) == FromPixel(w, h, Transparent)

\* img.put_pixel(x, y, p)
PutPixel(img, x, y, p) == [img EXCEPT !.px[<<x, y>>] = p]
\* img.get_pixel(x, y)
GetPixel(img, x, y) == img.px[<<x, y>>]

\* img.view(x, y, w, h).to_image()
View(img, x, y, w, h) ==
    [w |-> w, h |-> h,
     px |-> [c \in Coords(w, h) |-> img.px[<<x + c[1], y + c[2]>>]]]

\* GenericImage::copy_from(&mut self, other, x, y): an Err, and no write, when
\* the block does not fit; the callers drop the Err (let _ = ...)
CopyFrom(img, other, x, y) ==
    IF img.w < other.w + x \/ img.h < other.h + y
    THEN img
    ELSE [img EXCEPT !.px =
            [c \in Coords(img.w, img.h) |->
                IF /\ c[1] >= x /\ c[1] < x + other.w
                   /\ c[2] >= y /\ c[2] < y + other.h
                THEN other.px[<<c[1] - x, c[2] - y>>]
                ELSE img.px[c]]]


(***************************************************************************)
(* Layer model (layers.rs).  The name and the locked flag of a layer are   *)
(* read by no operation and are left out.  An opacity is the rational      *)
(* <<n, d>>.                                                               *)
(***************************************************************************)
BlendModes == {"Normal", "Multiply", "Add", "Screen"}

\* LayerData::Raster(img), LayerData::Tone { buffer, .. }, LayerData::Vector(vec![])
Raster(img) == [kind |-> "Raster", buffer |-> img]
Tone(img) == [kind |-> "Tone", buffer |-> img]
Vector == [kind |-> "Vector", buffer |-> NewBuffer(0, 0)]

\* the match arms "Raster(img) | Tone { buffer: img, .. } => Some(img), _ => None"
HasBuffer(data) == data.kind \in {"Raster", "Tone"}

\* Layer::new_raster(width, height, name)
new_raster(w, h, name) ==
    [name |-> name, visible |-> TRUE, alpha_locked |-> FALSE, clipped |-> FALSE,
     opacity |-> <<1, 1>>, blend |-> "Normal", data |-> Raster(NewBuffer(w, h))]

\* Layer::new_vector(name)
new_vector(name) ==
    [name |-> name, visible |-> TRUE, alpha_locked |-> FALSE, clipped |-> FALSE,
     opacity |-> <<1, 1>>, blend |-> "Normal", data |-> Vector]

(***************************************************************************)
(* Composite engine (image_store.rs).  The f32 arithmetic of               *)
(* blend_buffer_static is done on exact rationals; "as u8" truncates.      *)
(***************************************************************************)
\* a mix that averages the two channels in every mode
MixChannelAverage(mode, dstc, srcc) == <<dstc + srcc, 2>>

\* (r, g, b) of the match on mode, channel k, as the rational <<n, d>>
MixChannel(mode, dstc, srcc) ==
    CASE mode = "Normal" -> <<srcc, 1>>
      [] mode = "Multiply" -> <<dstc * srcc, 255>>
      [] mode = "Add" -> <<Min(dstc + srcc, 255), 1>>
      [] mode = "Screen" -> <<255 * 255 - (255 - srcc) * (255 - dstc), 255>>

\* a conversion that rounds to the nearest integer
ClampU8Rounded(n, d) == IF n <= 0 THEN 0 ELSE Min((2 * n + d) \div (2 * d), 255)

\* out.clamp(0.0, 255.0) as u8 of the rational n / d, d > 0
ClampU8(n, d) == IF n <= 0 THEN 0 ELSE Min(n \div d, 255)

\* One destination pixel of blend_buffer_static.  san / sad is src_a after the
\* opacity and the mask are multiplied in.
BlendPixel(dst, src, san, sad, mode) ==
    IF san <= 0 THEN dst
    ELSE
      LET g == GCD(san, sad)
          p == san \div g
          q == sad \div g
          \* out_a = src_a + dst_a * (1 - src_a) = oan / (255 * q)
          oan == 255 * p + dst[4] * (q - p)
          Chan(k) ==
              LET m0 == MixChannel(mode, dst[k], src[k])
                  gm == GCD(m0[1], m0[2])
                  mn == IF gm = 0 THEN 0 ELSE m0[1] \div gm
                  md == IF gm = 0 THEN 1 ELSE m0[2] \div gm
              IN ClampU8(255 * mn * p + md * dst[k] * dst[4] * (q - p), md * oan)
      IN <<Chan(1), Chan(2), Chan(3), ClampU8(oan, q)>>

\* ImageStore::blend_buffer_static(dest, source, opacity, mode, mask)
blend_buffer_static(dest, source, opacity, mode, mask) ==
    [dest EXCEPT !.px =
        [c \in Coords(dest.w, dest.h) |->
            IF c[1] >= source.w \/ c[2] >= source.h THEN dest.px[c]
            ELSE
              LET src == source.px[c]
                  san0 == src[4] * opacity[1]
                  sad0 == 255 * opacity[2]
                  masked == IsSome(mask)
                  inmask == masked /\ c[1] < Unwrap(mask).w /\ c[2] < Unwrap(mask).h
                  san == IF ~masked THEN san0
                         ELSE IF inmask THEN san0 * Unwrap(mask).px[c][4] ELSE 0
                  sad == IF masked THEN sad0 * 255 ELSE sad0
              IN BlendPixel(dest.px[c], src, san, sad, mode)]]

\* a clip mask taken from the layer below whatever data it holds
ClipMaskOfAnyData(ls, i) ==
    IF ls[i].clipped /\ i > 1 THEN Some(ls[i - 1].data.buffer) ELSE None

\* the clip mask of layer i: "if layer.clipped && i > 0 { match &layers[i - 1].data .. }"
ClipMask(ls, i) ==
    IF ls[i].clipped /\ i > 1 /\ HasBuffer(ls[i - 1].data)
    THEN Some(ls[i - 1].data.buffer)
    ELSE None

\* a loop body that blends the layers that are not visible too
CompositeStepOfHidden(dest, ls, i) ==
    IF ~HasBuffer(ls[i].data) THEN dest
    ELSE blend_buffer_static(dest, ls[i].data.buffer, ls[i].opacity,
                             ls[i].blend, ClipMask(ls, i))

\* the loop body of composite_layers for layer i (1-based)
CompositeStep(dest, ls, i) ==
    IF ~ls[i].visible \/ ~HasBuffer(ls[i].data) THEN dest
    ELSE blend_buffer_static(dest, ls[i].data.buffer, ls[i].opacity,
                             ls[i].blend, ClipMask(ls, i))

RECURSIVE CompositeUpTo(_, _, _)
CompositeUpTo(dest, ls, n) ==
    IF n = 0 THEN dest ELSE CompositeStep(CompositeUpTo(dest, ls, n - 1), ls, n)

\* ImageStore::composite_layers(dest, layers): dest is cleared first
composite_layers(w, h, ls) == CompositeUpTo(NewBuffer(w, h), ls, Len(ls))

(***************************************************************************)
(* Geometry of the tools.  A Pos2 is <<nx, ny, d>>, d > 0; a Rect has      *)
(* integer corners on every input of the model (integer sizes, integer     *)
(* pointer samples) and is [minx, miny, maxx, maxy].                       *)
(***************************************************************************)
Pos(x, y) == <<x, y, 1>>

\* "v as i32" of the rational n / d: truncation toward zero
TruncI32(n, d) == IF n >= 0 THEN n \div d ELSE -((-n) \div d)
\* "v as u32" of an integer valued f32: saturates at 0
AsU32(v) == Max(v, 0)

PosX(p) == TruncI32(p[1], p[3])
PosY(p) == TruncI32(p[2], p[3])

\* Pos2::lerp(start, end, i / steps) = (1 - t) * start + t * end
Lerp(a, b, i, steps) ==
    <<(steps - i) * a[1] * b[3] + i * b[1] * a[3],
      (steps - i) * a[2] * b[3] + i * b[2] * a[3],
      steps * a[3] * b[3]>>

\* the largest k with k * k * m <= n (n >= 0, m > 0)
RECURSIVE FloorSqrtFrom(_, _, _)
FloorSqrtFrom(n, m, k) ==
    IF (k + 1) * (k + 1) * m <= n THEN FloorSqrtFrom(n, m, k + 1) ELSE k

\* "(start.distance(end) / step).max(1.0) as u32" for the step stn / std
SegmentSteps(a, b, stn, std) ==
    LET dx == b[1] * a[3] - a[1] * b[3]
        dy == b[2] * a[3] - a[2] * b[3]
        dd == a[3] * b[3]
    IN Max(FloorSqrtFrom((dx * dx + dy * dy) * std * std, stn * stn * dd * dd, 0), 1)

MkRect(x0, y0, x1, y1) == [minx |-> x0, miny |-> y0, maxx |-> x1, maxy |-> y1]
RectWidth(r) == r.maxx - r.minx
RectHeight(r) == r.maxy - r.miny
\* Rect::union
RectUnion(a, b) ==
    MkRect(Min(a.minx, b.minx), Min(a.miny, b.miny),
           Max(a.maxx, b.maxx), Max(a.maxy, b.maxy))

\* expand_dirty_rect(rect) on the Option dirty_rect
expand_dirty_rect(dirty, rect) ==
    Some(IF IsSome(dirty) THEN RectUnion(Unwrap(dirty), rect) ELSE rect)

(***************************************************************************)
(* The scratch state of a stroke tool is [layer, dirty_rect].              *)
(***************************************************************************)
\* BrushTool::draw_circle; the same loop is the body of EraserTool::draw_circle,
\* LineTool::draw_line_on_layer, draw_rect_on_layer and draw_ellipse_on_layer
draw_circle(sc, pos, color, size) ==
    LET x == PosX(pos)
        y == PosY(pos)
        r == size
        min_x == Max(x - r, 0)
        max_x == Min(x + r, sc.layer.w - 1)
        min_y == Max(y - r, 0)
        max_y == Min(y + r, sc.layer.h - 1)
    IN [layer |->
          [sc.layer EXCEPT !.px =
             [c \in Coords(sc.layer.w, sc.layer.h) |->
                IF /\ c[1] >= min_x /\ c[1] <= max_x
                   /\ c[2] >= min_y /\ c[2] <= max_y
                   /\ (c[1] - x) * (c[1] - x) + (c[2] - y) * (c[2] - y) <= r * r
                THEN color
                ELSE sc.layer.px[c]]],
        dirty_rect |->
          expand_dirty_rect(sc.dirty_rect, MkRect(min_x, min_y, max_x + 1, max_y + 1))]

\* BrushTool::draw_texture_stamp with the texture tex
draw_texture_stamp(sc, tex, pos, color, size) ==
    LET start_x == TruncI32(pos[1] - size * pos[3], pos[3])
        start_y == TruncI32(pos[2] - size * pos[3], pos[3])
        n == 2 * size
        \* the stamp pixel that lands on the scratch pixel c, when there is one
        Src(c) == <<c[1] - start_x, c[2] - start_y>>
        Tx(sx) == (sx * tex.w) \div n
        Ty(sy) == (sy * tex.h) \div n
        Hit(c) == /\ Src(c)[1] >= 0 /\ Src(c)[1] < n
                  /\ Src(c)[2] >= 0 /\ Src(c)[2] < n
                  /\ Tx(Src(c)[1]) < tex.w /\ Ty(Src(c)[2]) < tex.h
        TexA(c) == tex.px[<<Tx(Src(c)[1]), Ty(Src(c)[2])>>][4]
        \* alpha = tex_a / 255 * color_a / 255 as the rational an / (255 * 255)
        An(c) == TexA(c) * color[4]
    IN [layer |->
          [sc.layer EXCEPT !.px =
             [c \in Coords(sc.layer.w, sc.layer.h) |->
                IF Hit(c) /\ An(c) > 0 /\ An(c) > sc.layer.px[c][4] * 255
                THEN <<color[1], color[2], color[3], An(c) \div 255>>
                ELSE sc.layer.px[c]]],
        dirty_rect |->
          expand_dirty_rect(sc.dirty_rect,
                            MkRect(start_x, start_y, start_x + n, start_y + n))]

\* one stamp of the brush: "if self.texture.is_some() { .. } else { .. }"
BrushStamp(sc, texture, pos, color, size) ==
    IF IsSome(texture) THEN draw_texture_stamp(sc, Unwrap(texture), pos, color, size)
    ELSE draw_circle(sc, pos, color, size)

\* the loop "for i in 0..=steps" of BrushTool::draw_segment, stamps 0..i
RECURSIVE BrushSegmentUpTo(_, _, _, _, _, _, _, _)
BrushSegmentUpTo(sc, texture, a, b, color, size, steps, i) ==
    IF i < 0 THEN sc
    ELSE BrushStamp(BrushSegmentUpTo(sc, texture, a, b, color, size, steps, i - 1),
                    texture, Lerp(a, b, i, steps), color, size)

\* BrushTool::draw_segment: step_dist = (size * spacing).max(1.0)
BrushSegment(sc, texture, a, b, color, size, spacing) ==
    LET spn == size * spacing[1]
        spd == spacing[2]
        stn == IF spn >= spd THEN spn ELSE 1
        std == IF spn >= spd THEN spd ELSE 1
        steps == SegmentSteps(a, b, stn, std)
    IN BrushSegmentUpTo(sc, texture, a, b, color, size, steps, steps)

\* the loop of EraserTool::draw_segment, and of the line tools, with 1 px steps
RECURSIVE CircleSegmentUpTo(_, _, _, _, _, _, _)
CircleSegmentUpTo(sc, a, b, color, size, steps, i) ==
    IF i < 0 THEN sc
    ELSE draw_circle(CircleSegmentUpTo(sc, a, b, color, size, steps, i - 1),
                     Lerp(a, b, i, steps), color, size)

CircleSegment(sc, a, b, color, size) ==
    LET steps == SegmentSteps(a, b, 1, 1)
    IN CircleSegmentUpTo(sc, a, b, color, size, steps, steps)

(***************************************************************************)
(* Patch commands (commands.rs).  layer_index, x and y are 0-based as in   *)
(* the code; the layer sequence is 1-based.  The fields dirty, stroke, id  *)
(* and on are not fields of PatchCommand: dirty records the tool's dirty   *)
(* rectangle at the commit, stroke the pixels the write loop visited (the  *)
(* scratch pixels of nonzero alpha inside the block), id the serial number *)
(* the command got when it was pushed and on the name of the layer at      *)
(* layer_index at that moment, for the properties that speak of them.      *)
(***************************************************************************)
PatchCommand(name, layer_index, x, y, old_patch, new_patch, dirty, stroke) ==
    [name |-> name, layer_index |-> layer_index, x |-> x, y |-> y,
     old_patch |-> old_patch, new_patch |-> new_patch, dirty |-> dirty,
     stroke |-> stroke, id |-> 0, on |-> ""]

\* an apply that falls back on the topmost layer when there is no layer
\* cmd.layer_index
ApplyPatchClamped(ls, cmd, patch) ==
    LET i == IF cmd.layer_index < Len(ls) THEN cmd.layer_index + 1 ELSE Len(ls)
    IN IF HasBuffer(ls[i].data)
       THEN [ls EXCEPT ![i].data.buffer = CopyFrom(@, patch, cmd.x, cmd.y)]
       ELSE ls

\* the body shared by PatchCommand::undo and PatchCommand::redo: copy patch
\* into the buffer of layer cmd.layer_index, if there is such a layer and buffer
ApplyPatch(ls, cmd, patch) ==
    IF cmd.layer_index < Len(ls) /\ HasBuffer(ls[cmd.layer_index + 1].data)
    THEN [ls EXCEPT ![cmd.layer_index + 1].data.buffer =
             CopyFrom(@, patch, cmd.x, cmd.y)]
    ELSE ls

\* a redo that copies the "before" block
PatchRedoBefore(ls, cmd) == ApplyPatch(ls, cmd, cmd.old_patch)

\* an undo that copies the "after" block
PatchUndoAfter(ls, cmd) == ApplyPatch(ls, cmd, cmd.new_patch)

\* PatchCommand::undo
PatchUndo(ls, cmd) == ApplyPatch(ls, cmd, cmd.old_patch)
\* PatchCommand::redo
PatchRedo(ls, cmd) == ApplyPatch(ls, cmd, cmd.new_patch)

(***************************************************************************)
(* The release branch the stroke tools share (base.rs 206-254, 403-446,    *)
(* 579-634; rect.rs 130-185; ellipse.rs 124-165).                          *)
(*                                                                         *)
(* "image.width() - x" is a u32 subtraction: with x > width it panics in   *)
(* a build with overflow checks and wraps in one without.  build is        *)
(* "checked" or "wrapping".  A panic is the result fault = TRUE.           *)
(***************************************************************************)
Builds == {"checked", "wrapping"}

\* lines 208-213 of base.rs: the patch rectangle, or a panic
ClampRect(rect, width, height, build) ==
    LET x == AsU32(rect.minx)
        y == AsU32(rect.miny)
        w == AsU32(RectWidth(rect))
        h == AsU32(RectHeight(rect))
    IN [x |-> x, y |-> y,
        w |-> IF x <= width THEN Min(w, width - x) ELSE w,
        h |-> IF y <= height THEN Min(h, height - y) ELSE h,
        fault |-> build = "checked" /\ (x > width \/ y > height)]

\* what the write loop leaves in the target pixel t for the scratch pixel p
\* Brush, Line, Rectangle: base.rs 226-233, 601-608; rect.rs 152-159
PaintPixel(t, p, alpha_locked) ==
    IF ~alpha_locked \/ t[4] > 0
    THEN IF alpha_locked THEN <<p[1], p[2], p[3], t[4]>> ELSE p
    ELSE t

\* Eraser: base.rs 423-425
ErasePixel(t, p, alpha_locked) == IF ~alpha_locked THEN Transparent ELSE t

\* Ellipse: ellipse.rs 143
EllipsePixel(t, p, alpha_locked) == p

WritePixel(mode, t, p, alpha_locked) ==
    CASE mode = "paint" -> PaintPixel(t, p, alpha_locked)
      [] mode = "erase" -> ErasePixel(t, p, alpha_locked)
      [] mode = "ellipse" -> EllipsePixel(t, p, alpha_locked)

\* a block test that every pixel passes
InPatchAnywhere(c, r) == TRUE

\* "for ly in 0..h, for lx in 0..w": the pixel c lies in the block r
InPatch(c, r) == /\ c[1] >= r.x /\ c[1] < r.x + r.w
                 /\ c[2] >= r.y /\ c[2] < r.y + r.h

\* whether the commit marks the composite dirty: every tool but the ellipse
\* calls image.mark_dirty() (base.rs 239, 431, 615; rect.rs 166)
CommitMarksDirty(mode) == mode # "ellipse"

\* The release branch for the dirty rectangle rect.  st is the image
\* [width, height, layers, active_layer]; sc the scratch buffer of the tool.
\* The result: the layers, the scratch buffer, the emitted command (an
\* Option), whether mark_dirty was called, and whether the update panicked.
StrokeCommit(st, sc, rect, mode, name, build) ==
    LET r == ClampRect(rect, st.width, st.height, build)
        layer_index == st.active_layer
        NoCommand(f) == [layers |-> st.layers, layer |-> sc, cmd |-> None,
                         marked |-> FALSE, fault |-> f]
    IN IF r.fault \/ layer_index >= Len(st.layers) THEN NoCommand(TRUE)
       ELSE
         LET target == st.layers[layer_index + 1]
         IN IF ~HasBuffer(target.data) \/ r.w = 0 \/ r.h = 0 THEN NoCommand(FALSE)
            ELSE IF \/ r.x + r.w > target.data.buffer.w
                    \/ r.y + r.h > target.data.buffer.h
                    \/ r.x + r.w > sc.w \/ r.y + r.h > sc.h
            THEN NoCommand(TRUE)  \* view() asserts the block lies in the buffer
            ELSE
              LET old_patch == View(target.data.buffer, r.x, r.y, r.w, r.h)
                  Stroke(c) == InPatch(c, r) /\ sc.px[c][4] > 0
                  written ==
                      [target.data.buffer EXCEPT !.px =
                         [c \in Coords(target.data.buffer.w, target.data.buffer.h) |->
                            IF Stroke(c)
                            THEN WritePixel(mode, target.data.buffer.px[c], sc.px[c],
                                            target.alpha_locked)
                            ELSE target.data.buffer.px[c]]]
                  cleared ==
                      [sc EXCEPT !.px =
                         [c \in Coords(sc.w, sc.h) |->
                            IF Stroke(c) THEN Transparent ELSE sc.px[c]]]
              IN [layers |-> [st.layers EXCEPT ![layer_index + 1].data.buffer = written],
                  layer |-> cleared,
                  cmd |-> Some(PatchCommand(name, layer_index, r.x, r.y, old_patch,
                                            View(written, r.x, r.y, r.w, r.h), rect,
                                            {c \in Coords(sc.w, sc.h) : Stroke(c)})),
                  marked |-> CommitMarksDirty(mode),
                  fault |-> FALSE]

(***************************************************************************)
(* Tool settings (state.rs).  The sizes are inputs of the model, chosen    *)
(* small for the small canvas; stabilization and spacing are the defaults. *)
(* brush_stabilization and brush_spacing are rationals <<n, d>>.           *)
(***************************************************************************)
ToolSettings ==
    [brush_size |-> 1, brush_stabilization |-> <<1, 2>>, brush_spacing |-> <<1, 10>>,
     eraser_size |-> 1, line_width |-> 1]

\* ToolInput { pos, is_pressed, is_released }
ToolInput(pos, is_pressed, is_released) ==
    [pos |-> pos, is_pressed |-> is_pressed, is_released |-> is_released]

\* the result of Tool::update: the tool, the layers, the returned command, whether
\* image.mark_dirty() was called, whether the call panicked
UpdateResult(tool, layers, cmd, marked, fault) ==
    [tool |-> tool, layers |-> layers, cmd |-> cmd, marked |-> marked, fault |-> fault]

\* "if self.layer.width() != image.width() || .. { self.layer = ImageBuffer::new(..) }"
Realloc(layer, st) ==
    IF layer.w # st.width \/ layer.h # st.height
    THEN NewBuffer(st.width, st.height)
    ELSE layer

(***************************************************************************)
(* BrushTool (base.rs 36-311)                                              *)
(***************************************************************************)
\* BrushTool::new(width, height)
BrushNew(w, h) ==
    [name |-> "Brush", texture |-> None, layer |-> NewBuffer(w, h),
     last_pos |-> None, stabilized_pos |-> None, dirty_rect |-> None]

\* the same point with the least denominator
NormPos(p) ==
    LET g == GCD(GCD(Abs(p[1]), Abs(p[2])), p[3])
    IN <<TruncI32(p[1], g), TruncI32(p[2], g), p[3] \div g>>

\* last_s * weight + target * (1 - weight), weight = stabilization.clamp(0, 0.95)
Stabilize(last_s, target, weight) == NormPos(
    <<last_s[1] * weight[1] * target[3] + target[1] * (weight[2] - weight[1]) * last_s[3],
      last_s[2] * weight[1] * target[3] + target[2] * (weight[2] - weight[1]) * last_s[3],
      weight[2] * last_s[3] * target[3]>>)

\* the pressed branch of BrushTool::update (base.rs 171-204)
BrushPressed(t, input, color) ==
    IF input.is_pressed
    THEN IF IsSome(input.pos)
         THEN LET target_pos == Unwrap(input.pos)
                  current_stabilized ==
                      IF IsSome(t.stabilized_pos)
                      THEN Stabilize(Unwrap(t.stabilized_pos), target_pos,
                                     ToolSettings.brush_stabilization)
                      ELSE target_pos
                  sc0 == [layer |-> t.layer, dirty_rect |-> t.dirty_rect]
                  sc == IF IsSome(t.last_pos)
                        THEN BrushSegment(sc0, t.texture, Unwrap(t.last_pos),
                                          current_stabilized, color,
                                          ToolSettings.brush_size,
                                          ToolSettings.brush_spacing)
                        ELSE BrushStamp(sc0, t.texture, current_stabilized, color,
                                        ToolSettings.brush_size)
              IN [t EXCEPT !.layer = sc.layer, !.dirty_rect = sc.dirty_rect,
                           !.last_pos = Some(current_stabilized),
                           !.stabilized_pos = Some(current_stabilized)]
         ELSE t
    ELSE [t EXCEPT !.last_pos = None, !.stabilized_pos = None]

\* the end of the release branch: the tool keeps its cleared scratch buffer and
\* drops its dirty rectangle; c is the result of StrokeCommit
Committed(t1, c) ==
    UpdateResult(IF c.fault THEN t1
                 ELSE [t1 EXCEPT !.layer = c.layer, !.dirty_rect = None],
                 c.layers, c.cmd, c.marked, c.fault)

\* a release branch that commits on every sample that finds a dirty rectangle
BrushReleasedEager(t1, st, input, build) ==
    IF IsSome(t1.dirty_rect)
    THEN Committed(t1, StrokeCommit(st, t1.layer, Unwrap(t1.dirty_rect), "paint",
                                    "Brush Stroke", build))
    ELSE UpdateResult(t1, st.layers, None, FALSE, FALSE)

\* a release branch that calls mark_dirty() when it finds no dirty rectangle
BrushReleasedMarking(t1, st, input, build) ==
    IF input.is_released /\ IsSome(t1.dirty_rect)
    THEN Committed(t1, StrokeCommit(st, t1.layer, Unwrap(t1.dirty_rect), "paint",
                                    "Brush Stroke", build))
    ELSE UpdateResult(t1, st.layers, None, input.is_released, FALSE)

\* the release branch of BrushTool::update (base.rs 206-254)
BrushReleased(t1, st, input, build) ==
    IF input.is_released /\ IsSome(t1.dirty_rect)
    THEN Committed(t1, StrokeCommit(st, t1.layer, Unwrap(t1.dirty_rect), "paint",
                                    "Brush Stroke", build))
    ELSE UpdateResult(t1, st.layers, None, FALSE, FALSE)

\* BrushTool::update
BrushUpdate(tool, st, input, color, build) ==
    BrushReleased(BrushPressed([tool EXCEPT !.layer = Realloc(tool.layer, st)],
                               input, color),
                  st, input, build)

(***************************************************************************)
(* EraserTool (base.rs 313-478)                                            *)
(***************************************************************************)
\* the colour the eraser draws into its scratch buffer (base.rs 363)
EraserColor == <<255, 255, 255, 128>>

\* EraserTool::new(width, height)
EraserNew(w, h) ==
    [name |-> "Eraser", layer |-> NewBuffer(w, h), last_pos |-> None,
     dirty_rect |-> None]

\* the pressed branch of EraserTool::update (base.rs 390-401)
EraserPressed(t, input) ==
    IF input.is_pressed
    THEN IF IsSome(input.pos)
         THEN LET pos == Unwrap(input.pos)
                  sc0 == [layer |-> t.layer, dirty_rect |-> t.dirty_rect]
                  sc == IF IsSome(t.last_pos)
                        THEN CircleSegment(sc0, Unwrap(t.last_pos), pos, EraserColor,
                                           ToolSettings.eraser_size)
                        ELSE draw_circle(sc0, pos, EraserColor, ToolSettings.eraser_size)
              IN [t EXCEPT !.layer = sc.layer, !.dirty_rect = sc.dirty_rect,
                           !.last_pos = Some(pos)]
         ELSE t
    ELSE [t EXCEPT !.last_pos = None]

\* the release branch of EraserTool::update (base.rs 403-446)
EraserReleased(t1, st, input, build) ==
    IF input.is_released /\ IsSome(t1.dirty_rect)
    THEN Committed(t1, StrokeCommit(st, t1.layer, Unwrap(t1.dirty_rect), "erase",
                                    "Erase", build))
    ELSE UpdateResult(t1, st.layers, None, FALSE, FALSE)

\* EraserTool::update
EraserUpdate(tool, st, input, color, build) ==
    EraserReleased(EraserPressed([tool EXCEPT !.layer = Realloc(tool.layer, st)], input),
                   st, input, build)

(***************************************************************************)
(* LineTool (base.rs 480-662), RectangleTool (rect.rs), EllipseTool        *)
(* (ellipse.rs): the shape is redrawn from start to the current point on   *)
(* every pressed sample.                                                   *)
(***************************************************************************)
\* the loop that clears the previous dirty rectangle from the scratch buffer
\* (base.rs 498-510, rect.rs 25-38, ellipse.rs 27-40); put_pixel panics
\* outside the buffer
ClearDirty(layer, dirty, build) ==
    IF ~IsSome(dirty) THEN [layer |-> layer, fault |-> FALSE]
    ELSE LET r == ClampRect(Unwrap(dirty), layer.w, layer.h, build)
         IN IF r.fault \/ (r.w > 0 /\ r.h > 0 /\ (r.x + r.w > layer.w \/ r.y + r.h > layer.h))
            THEN [layer |-> layer, fault |-> TRUE]
            ELSE [layer |->
                    [layer EXCEPT !.px =
                       [c \in Coords(layer.w, layer.h) |->
                          IF InPatch(c, r) THEN Transparent ELSE layer.px[c]]],
                  fault |-> FALSE]

\* LineTool::new, RectangleTool::new
ShapeNew(name, w, h) ==
    [name |-> name, layer |-> NewBuffer(w, h), start_pos |-> None,
     current_pos |-> None, dirty_rect |-> None]

\* EllipseTool::new: width is the field the ellipse stamps with
EllipseNew(w, h) ==
    [name |-> "Ellipse", width |-> 2, layer |-> NewBuffer(w, h), start_pos |-> None,
     current_pos |-> None, dirty_rect |-> None]

\* LineTool::draw_line_on_layer after the clear
draw_line_on_layer(layer, start, end, color, width) ==
    CircleSegment([layer |-> layer, dirty_rect |-> None], start, end, color, width)

\* RectangleTool::draw_rect_on_layer after the clear: four edges, one new_dirty
draw_rect_on_layer(layer, start, end, color, width) ==
    LET dd == start[3] * end[3]
        sx == start[1] * end[3]
        sy == start[2] * end[3]
        ex == end[1] * start[3]
        ey == end[2] * start[3]
        tl == <<Min(sx, ex), Min(sy, ey), dd>>
        tr == <<Max(sx, ex), Min(sy, ey), dd>>
        br == <<Max(sx, ex), Max(sy, ey), dd>>
        bl == <<Min(sx, ex), Max(sy, ey), dd>>
        e1 == CircleSegment([layer |-> layer, dirty_rect |-> None], tl, tr, color, width)
        e2 == CircleSegment(e1, tr, br, color, width)
        e3 == CircleSegment(e2, br, bl, color, width)
    IN CircleSegment(e3, bl, tl, color, width)

\* EllipseTool::draw_ellipse_on_layer after the clear, for start = end: the
\* radii are 0, every one of the max(circ, 10) + 1 stamps is at the centre.
\* (The model moves the pointer of an ellipse gesture nowhere else: sin and
\* cos are not modelled.)
draw_ellipse_on_layer(layer, start, end, color, width) ==
    draw_circle([layer |-> layer, dirty_rect |-> None], start, color, width)

DrawShape(t, start, pos, color) ==
    CASE t.name = "Line" ->
           draw_line_on_layer(t.layer, start, pos, color, ToolSettings.line_width)
      [] t.name = "Rectangle" ->
           draw_rect_on_layer(t.layer, start, pos, color, ToolSettings.line_width)
      [] t.name = "Ellipse" ->
           draw_ellipse_on_layer(t.layer, start, pos, color, t.width)

\* the pressed branch (base.rs 567-577, rect.rs 118-128, ellipse.rs 112-122);
\* the result is [tool, fault]
ShapePressed(t, input, color, build) ==
    IF ~input.is_pressed THEN [tool |-> t, fault |-> FALSE]
    ELSE LET start_pos == IF IsSome(t.start_pos) THEN t.start_pos ELSE input.pos
         IN IF ~IsSome(input.pos)
            THEN [tool |-> [t EXCEPT !.start_pos = start_pos], fault |-> FALSE]
            ELSE LET cl == ClearDirty(t.layer, t.dirty_rect, build)
                     sc == DrawShape([t EXCEPT !.layer = cl.layer],
                                     Unwrap(start_pos), Unwrap(input.pos), color)
                 IN IF cl.fault
                    THEN [tool |-> [t EXCEPT !.start_pos = start_pos,
                                             !.current_pos = input.pos],
                          fault |-> TRUE]
                    ELSE [tool |-> [t EXCEPT !.start_pos = start_pos,
                                             !.current_pos = input.pos,
                                             !.layer = sc.layer,
                                             !.dirty_rect = sc.dirty_rect],
                          fault |-> FALSE]

\* the write loop and the command name of each shape tool
ShapeMode(name) == IF name = "Ellipse" THEN "ellipse" ELSE "paint"

\* a reset that keeps the start of the gesture
ShapeResetKeepingStart(t1) ==
    [t1 EXCEPT !.current_pos = None, !.dirty_rect = None]

\* the fields the release branch resets
ShapeReset(t1) ==
    [t1 EXCEPT !.start_pos = None, !.current_pos = None, !.dirty_rect = None]

\* the end of the release branch; c is the result of StrokeCommit
ShapeCommitted(t1, c) ==
    UpdateResult(IF c.fault THEN t1 ELSE [ShapeReset(t1) EXCEPT !.layer = c.layer],
                 c.layers, c.cmd, c.marked, c.fault)

\* the release branch (base.rs 579-634, rect.rs 130-185, ellipse.rs 124-165);
\* p is the result of ShapePressed
ShapeReleased(p, st, input, build) ==
    IF p.fault THEN UpdateResult(p.tool, st.layers, None, FALSE, TRUE)
    ELSE IF ~input.is_released THEN UpdateResult(p.tool, st.layers, None, FALSE, FALSE)
    ELSE IF /\ IsSome(p.tool.start_pos) /\ IsSome(p.tool.current_pos)
            /\ IsSome(p.tool.dirty_rect)
    THEN ShapeCommitted(p.tool,
                        StrokeCommit(st, p.tool.layer, Unwrap(p.tool.dirty_rect),
                                     ShapeMode(p.tool.name), p.tool.name, build))
    ELSE UpdateResult(ShapeReset(p.tool), st.layers, None, FALSE, FALSE)

\* LineTool::update, RectangleTool::update, EllipseTool::update.  The ellipse
\* writes image.buffer and builds a PatchCommand without a layer index: the
\* model reads both as the active layer, as for the other tools.
ShapeUpdate(tool, st, input, color, build) ==
    ShapeReleased(ShapePressed([tool EXCEPT !.layer = Realloc(tool.layer, st)],
                               input, color, build),
                  st, input, build)

(***************************************************************************)
(* Selection mask and RectSelectionTool (selection.rs 8-86).  A mask is a  *)
(* buffer of single values (Luma<u8>).                                     *)
(***************************************************************************)
RectSelectNew == [name |-> "Rect Selection", start_pos |-> None, current_pos |-> None]

\* a mask that counts a rectangle of zero width or zero height as non-empty
RectMaskEither(start, end, w, h) ==
    [nonempty |-> \/ Max(PosX(start), PosX(end)) > Min(PosX(start), PosX(end))
                  \/ Max(PosY(start), PosY(end)) > Min(PosY(start), PosY(end)),
     mask |-> [w |-> w, h |-> h, px |-> [c \in Coords(w, h) |-> 0]]]

\* the mask built on release (selection.rs 43-56)
RectMask(start, end, w, h) ==
    LET sx == PosX(start)
        sy == PosY(start)
        ex == PosX(end)
        ey == PosY(end)
        min_x == AsU32(Min(sx, ex))
        max_x == AsU32(Max(sx, ex))
        min_y == AsU32(Min(sy, ey))
        max_y == AsU32(Max(sy, ey))
    IN [nonempty |-> max_x > min_x /\ max_y > min_y,
        mask |-> [w |-> w, h |-> h,
                  px |-> [c \in Coords(w, h) |->
                            IF /\ c[1] >= min_x /\ c[1] < Min(max_x, w)
                               /\ c[2] >= min_y /\ c[2] < Min(max_y, h)
                            THEN 255 ELSE 0]]]

\* RectSelectionTool::update; the result is [tool, selection]
RectSelectUpdate(tool, st, input) ==
    LET t1 == IF input.is_pressed
              THEN [tool EXCEPT
                      !.start_pos = IF IsSome(tool.start_pos) THEN @ ELSE input.pos,
                      !.current_pos = input.pos]
              ELSE tool
    IN IF ~input.is_released THEN [tool |-> t1, selection |-> st.selection]
       ELSE [tool |-> [t1 EXCEPT !.start_pos = None, !.current_pos = None],
             selection |->
               IF IsSome(t1.start_pos) /\ IsSome(t1.current_pos)
               THEN LET m == RectMask(Unwrap(t1.start_pos), Unwrap(t1.current_pos),
                                      st.width, st.height)
                    IN IF m.nonempty THEN Some(m.mask) ELSE None
               ELSE st.selection]

(***************************************************************************)
(* LassoSelectionTool (selection.rs 88-170).  The vertices are pointer     *)
(* samples: points with integer coordinates.                               *)
(***************************************************************************)
SetMin(S) == CHOOSE v \in S : \A u \in S : v <= u
SetMax(S) == CHOOSE v \in S : \A u \in S : v >= u

LassoNew == [name |-> "Lasso Selection", points |-> <<>>]

\* LassoSelectionTool::is_inside: the even-odd test of the pixel (px, py).  The
\* comparison "px < (xj - xi) * (py - yi) / (yj - yi) + xi" is made without the
\* division; yj # yi where it is evaluated.
is_inside(points, px, py) ==
    LET n == Len(points)
        Prev(i) == IF i = 1 THEN n ELSE i - 1
        Crosses(i) ==
            LET xi == points[i][1]
                yi == points[i][2]
                xj == points[Prev(i)][1]
                yj == points[Prev(i)][2]
            IN /\ (yi > py) # (yj > py)
               /\ IF yj - yi > 0
                  THEN (px - xi) * (yj - yi) < (xj - xi) * (py - yi)
                  ELSE (px - xi) * (yj - yi) > (xj - xi) * (py - yi)
    IN Cardinality({i \in 1 .. n : Crosses(i)}) % 2 = 1

\* the mask a release with more than two vertices builds (selection.rs 134-162)
LassoMask(points, w, h) ==
    LET xs == {points[i][1] : i \in 1 .. Len(points)}
        ys == {points[i][2] : i \in 1 .. Len(points)}
        start_x == AsU32(SetMin(xs \cup {w}))
        end_x == AsU32(SetMax(xs \cup {0}))
        start_y == AsU32(SetMin(ys \cup {h}))
        end_y == AsU32(SetMax(ys \cup {0}))
    IN [w |-> w, h |-> h,
        px |-> [c \in Coords(w, h) |->
                  IF /\ c[1] >= start_x /\ c[1] < Min(end_x, w)
                     /\ c[2] >= start_y /\ c[2] < Min(end_y, h)
                     /\ is_inside(points, c[1], c[2])
                  THEN 255 ELSE 0]]

\* a lasso that builds the mask from any number of vertices
LassoReleasedAlways(points, st, input) ==
    IF input.is_released /\ points # <<>>
    THEN [tool |-> LassoNew, selection |-> Some(LassoMask(points, st.width, st.height))]
    ELSE [tool |-> [LassoNew EXCEPT !.points = points], selection |-> st.selection]

\* the release branch of LassoSelectionTool::update (selection.rs 133-167)
LassoReleased(points, st, input) ==
    IF input.is_released /\ points # <<>>
    THEN [tool |-> LassoNew,
          selection |-> IF Len(points) > 2
                        THEN Some(LassoMask(points, st.width, st.height))
                        ELSE st.selection]
    ELSE [tool |-> [LassoNew EXCEPT !.points = points], selection |-> st.selection]

\* LassoSelectionTool::update; the result is [tool, selection]
LassoUpdate(tool, st, input) ==
    LassoReleased(IF input.is_pressed /\ IsSome(input.pos)
                  THEN Append(tool.points, Unwrap(input.pos))
                  ELSE tool.points,
                  st, input)

(***************************************************************************)
(* TransformTool (transform.rs)                                            *)
(***************************************************************************)
\* the radius around a corner that grabs its handle (transform.rs 185)
HandleSize == 12

\* TransformTool::new()
TransformNew ==
    [name |-> "Transform", floating_buffer |-> None, source_rect |-> None,
     current_rect |-> None, is_dragging |-> FALSE, drag_start |-> None,
     drag_offset |-> <<0, 0>>, handle_drag |-> None, committed |-> FALSE,
     original_layer_snapshot |-> None, layer_index |-> 0]

\* every pixel of a mask that selects anything
SelectedOrNot(mask) ==
    IF \E c \in Coords(mask.w, mask.h) : mask.px[c] > 0
    THEN Coords(mask.w, mask.h) ELSE {}

\* the pixels "p[0] > 0" of a mask
Selected(mask) == {c \in Coords(mask.w, mask.h) : mask.px[c] > 0}


\* TransformTool::pick_up_selection; the result is [tool, layers, marked, fault]
pick_up_selection(tool, st) ==
    LET Same == [tool |-> tool, layers |-> st.layers, marked |-> FALSE, fault |-> FALSE]
    IN IF ~IsSome(st.selection) THEN Same
       ELSE
         LET mask == Unwrap(st.selection)
             sel == Selected(mask)
         IN IF sel = {} THEN Same
            ELSE
              LET min_x == SetMin({c[1] : c \in sel})
                  max_x == SetMax({c[1] : c \in sel})
                  min_y == SetMin({c[2] : c \in sel})
                  max_y == SetMax({c[2] : c \in sel})
                  w == max_x - min_x + 1
                  h == max_y - min_y + 1
                  t1 == [tool EXCEPT !.layer_index = st.active_layer]
              IN IF st.active_layer >= Len(st.layers)
                 THEN [Same EXCEPT !.fault = TRUE]  \* image.layers[self.layer_index]
                 ELSE
                   LET data == st.layers[st.active_layer + 1].data
                   IN IF ~HasBuffer(data) THEN [Same EXCEPT !.tool = t1]
                      ELSE IF \E c \in sel : c[1] >= data.buffer.w \/ c[2] >= data.buffer.h
                      THEN [Same EXCEPT !.fault = TRUE]  \* get_pixel outside the layer
                      ELSE
                        LET rect == MkRect(min_x, min_y, max_x + 1, max_y + 1)
                            buffer ==
                              [w |-> w, h |-> h,
                               px |-> [c \in Coords(w, h) |->
                                         IF <<min_x + c[1], min_y + c[2]>> \in sel
                                         THEN data.buffer.px[<<min_x + c[1], min_y + c[2]>>]
                                         ELSE Transparent]]
                            cut == [data.buffer EXCEPT !.px =
                                      [c \in Coords(data.buffer.w, data.buffer.h) |->
                                         IF c \in sel THEN Transparent
                                         ELSE data.buffer.px[c]]]
                        IN [tool |-> [t1 EXCEPT
                                        !.original_layer_snapshot = Some(data.buffer),
                                        !.floating_buffer = Some(buffer),
                                        !.source_rect = Some(rect),
                                        !.current_rect = Some(rect)],
                            layers |-> [st.layers EXCEPT
                                          ![st.active_layer + 1].data.buffer = cut],
                            marked |-> TRUE,
                            fault |-> FALSE]

\* image::imageops::resize(buffer, nw, nh, FilterType::Nearest): a copy when the
\* size is the same, else the source pixel under the centre of each new pixel
NearestResize(buffer, nw, nh) ==
    [w |-> nw, h |-> nh,
     px |-> [c \in Coords(nw, nh) |->
               buffer.px[<<Min(((2 * c[1] + 1) * buffer.w) \div (2 * nw), buffer.w - 1),
                           Min(((2 * c[2] + 1) * buffer.h) \div (2 * nh), buffer.h - 1)>>]]]

\* a stamp loop with no test against the canvas bounds
StampUnclipped(target, resized, tx, ty, w, h) ==
    [target EXCEPT !.px =
       [c \in Coords(target.w, target.h)
               \cup {<<tx + d[1], ty + d[2]>> : d \in Coords(resized.w, resized.h)} |->
          IF /\ c[1] - tx >= 0 /\ c[1] - tx < resized.w
             /\ c[2] - ty >= 0 /\ c[2] - ty < resized.h
             /\ resized.px[<<c[1] - tx, c[2] - ty>>][4] > 0
          THEN resized.px[<<c[1] - tx, c[2] - ty>>]
          ELSE target.px[c]]]

\* a stamp loop that writes nothing
StampNothing(target, resized, tx, ty, w, h) == target

\* the stamp loop of the commit (transform.rs 143-158)
StampFloating(target, resized, tx, ty, w, h) ==
    [target EXCEPT !.px =
       [c \in Coords(target.w, target.h) |->
          IF /\ c[1] < w /\ c[2] < h
             /\ c[1] - tx >= 0 /\ c[1] - tx < resized.w
             /\ c[2] - ty >= 0 /\ c[2] - ty < resized.h
             /\ resized.px[<<c[1] - tx, c[2] - ty>>][4] > 0
          THEN resized.px[<<c[1] - tx, c[2] - ty>>]
          ELSE target.px[c]]]

\* mouse_pos.distance(corner) < handle_size, on integer points
Near(px, py, cx, cy) ==
    (px - cx) * (px - cx) + (py - cy) * (py - cy) < HandleSize * HandleSize

\* the handle the first pressed sample grabs (transform.rs 185-197), an Option
GrabHandle(current, mx, my) ==
    IF Near(mx, my, current.minx, current.miny) THEN Some("TopLeft")
    ELSE IF Near(mx, my, current.maxx, current.miny) THEN Some("TopRight")
    ELSE IF Near(mx, my, current.minx, current.maxy) THEN Some("BottomLeft")
    ELSE IF Near(mx, my, current.maxx, current.maxy) THEN Some("BottomRight")
    ELSE IF /\ current.minx <= mx /\ mx <= current.maxx
            /\ current.miny <= my /\ my <= current.maxy THEN Some("Center")
    ELSE None

\* the rectangle a dragged sample leaves (transform.rs 204-225)
DragRect(current, handle, offset, mx, my) ==
    CASE handle = Some("Center") ->
           MkRect(mx - offset[1], my - offset[2],
                  mx - offset[1] + RectWidth(current),
                  my - offset[2] + RectHeight(current))
      [] handle = Some("TopLeft") -> [current EXCEPT !.minx = mx, !.miny = my]
      [] handle = Some("TopRight") -> [current EXCEPT !.maxx = mx, !.miny = my]
      [] handle = Some("BottomLeft") -> [current EXCEPT !.minx = mx, !.maxy = my]
      [] handle = Some("BottomRight") -> [current EXCEPT !.maxx = mx, !.maxy = my]
      [] OTHER -> current

\* a pointer handling that drops the floating buffer when no button is down
TransformPointerDropping(t, input) ==
    IF input.is_pressed THEN t
    ELSE [t EXCEPT !.floating_buffer = None, !.is_dragging = FALSE,
                   !.handle_drag = None]

\* the pointer handling of TransformTool::update (transform.rs 181-233)
TransformPointer(t, input) ==
    IF ~IsSome(t.current_rect) THEN t
    ELSE IF ~input.is_pressed
    THEN [t EXCEPT !.is_dragging = FALSE, !.handle_drag = None]
    ELSE IF ~IsSome(input.pos) THEN t
    ELSE
      LET current == Unwrap(t.current_rect)
          mx == PosX(Unwrap(input.pos))
          my == PosY(Unwrap(input.pos))
      IN IF ~t.is_dragging
         THEN LET hd == GrabHandle(current, mx, my)
                  \* an unmatched sample leaves handle_drag as it was
                  handle == IF IsSome(hd) THEN hd ELSE t.handle_drag
                  t1 == [t EXCEPT
                           !.handle_drag = handle,
                           !.drag_offset = IF hd = Some("Center")
                                           THEN <<mx - current.minx, my - current.miny>>
                                           ELSE @]
              IN IF IsSome(handle)
                 THEN [t1 EXCEPT !.is_dragging = TRUE, !.drag_start = input.pos]
                 ELSE t1
         ELSE [t EXCEPT !.current_rect =
                          Some(DragRect(current, t.handle_drag, t.drag_offset, mx, my))]

\* TransformTool::update
TransformUpdate(tool, st, input) ==
    LET committing == /\ tool.committed
                      /\ IsSome(tool.floating_buffer)
                      /\ IsSome(tool.current_rect)
                      /\ IsSome(tool.original_layer_snapshot)
    IN IF committing /\ tool.layer_index >= Len(st.layers)
       THEN UpdateResult(tool, st.layers, None, FALSE, TRUE)
       ELSE IF committing /\ HasBuffer(st.layers[tool.layer_index + 1].data)
       THEN
         LET current == Unwrap(tool.current_rect)
             target == st.layers[tool.layer_index + 1].data.buffer
             nw == Max(RectWidth(current), 1)
             nh == Max(RectHeight(current), 1)
             resized == NearestResize(Unwrap(tool.floating_buffer), nw, nh)
             stamped == StampFloating(target, resized, current.minx, current.miny,
                                      st.width, st.height)
         IN UpdateResult(
                [tool EXCEPT !.committed = FALSE, !.floating_buffer = None],
                [st.layers EXCEPT ![tool.layer_index + 1].data.buffer = stamped],
                Some(PatchCommand("Transform", tool.layer_index, 0, 0,
                                  Unwrap(tool.original_layer_snapshot), stamped,
                                  current, {})),
                TRUE, FALSE)
       ELSE
         LET pk == IF ~IsSome(tool.floating_buffer) /\ ~tool.committed
                   THEN pick_up_selection(tool, st)
                   ELSE [tool |-> tool, layers |-> st.layers, marked |-> FALSE,
                         fault |-> FALSE]
         IN IF pk.fault THEN UpdateResult(tool, st.layers, None, FALSE, TRUE)
            ELSE UpdateResult(TransformPointer(pk.tool, input), pk.layers, None,
                              pk.marked, FALSE)

\* the Confirm button of TransformTool::configure (transform.rs 255-259)
TransformConfirm(tool) ==
    IF IsSome(tool.floating_buffer) THEN [tool EXCEPT !.committed = TRUE] ELSE tool

(***************************************************************************)
(* Command stack (commands.rs 11-57) as the record [commands, cursor].     *)
(***************************************************************************)
\* CommandStack::new()
StackNew == [commands |-> <<>>, cursor |-> 0]

\* a push that keeps the undone commands
StackPushKeeping(s, cmd) ==
    [commands |-> Append(s.commands, cmd), cursor |-> s.cursor + 1]

\* CommandStack::push
StackPush(s, cmd) ==
    [commands |-> Append(IF s.cursor < Len(s.commands)
                         THEN SubSeq(s.commands, 1, s.cursor)
                         ELSE s.commands, cmd),
     cursor |-> s.cursor + 1]

\* a can_redo that is off by one
can_redo_inclusive(s) == s.cursor <= Len(s.commands)

\* CommandStack::can_undo
can_undo(s) == s.cursor > 0
\* CommandStack::can_redo
can_redo(s) == s.cursor < Len(s.commands)

\* an undo that does not call image.mark_dirty()
StackUndoUnmarked(s, ls) ==
    IF s.cursor > 0
    THEN [stack |-> [s EXCEPT !.cursor = s.cursor - 1],
          layers |-> PatchUndo(ls, s.commands[s.cursor]),
          marked |-> FALSE]
    ELSE [stack |-> s, layers |-> ls, marked |-> FALSE]

\* an undo that calls image.mark_dirty() whether or not it found a command
StackUndoMarking(s, ls) ==
    IF s.cursor > 0
    THEN [stack |-> [s EXCEPT !.cursor = s.cursor - 1],
          layers |-> PatchUndo(ls, s.commands[s.cursor]),
          marked |-> TRUE]
    ELSE [stack |-> s, layers |-> ls, marked |-> TRUE]

\* CommandStack::undo: the stack, the layers and whether mark_dirty was called
StackUndo(s, ls) ==
    IF s.cursor > 0
    THEN [stack |-> [s EXCEPT !.cursor = s.cursor - 1],
          layers |-> PatchUndo(ls, s.commands[s.cursor]),
          marked |-> TRUE]
    ELSE [stack |-> s, layers |-> ls, marked |-> FALSE]

\* CommandStack::redo
StackRedo(s, ls) ==
    IF s.cursor < Len(s.commands)
    THEN [stack |-> [s EXCEPT !.cursor = s.cursor + 1],
          layers |-> PatchRedo(ls, s.commands[s.cursor + 1]),
          marked |-> TRUE]
    ELSE [stack |-> s, layers |-> ls, marked |-> FALSE]

(***************************************************************************)
(* The state of the program: AppState (state.rs 114-149) with the          *)
(* ImageStore spread into its fields, the file save() wrote, and whether   *)
(* the process panicked.                                                   *)
(***************************************************************************)
VARIABLES
    width, height,      \* ImageStore.width, .height
    layers,             \* ImageStore.layers
    active_layer,       \* ImageStore.active_layer (0-based)
    composite,          \* ImageStore.composite, the cached render
    composite_dirty,    \* ImageStore.composite_dirty
    selection,          \* ImageStore.selection, an Option of a mask
    stack,              \* AppState.command_stack
    active_tool,        \* AppState.active_tool
    saved,              \* the image the last save() wrote, an Option
    fault,              \* the process panicked
    binary,             \* how the binary was built: an element of Builds
    \* history, read by the properties only
    ev,                 \* the handler that ran last, and what it did
    hist,               \* hist[k + 1]: the layer buffers when cursor was last k
    pre_release,        \* the layer buffers before the commit that ran last
    discarded,          \* the serial numbers push has truncated away
    serial,             \* commands emitted so far
    samples             \* pressed samples since the last release or tool switch

vars == <<width, height, layers, active_layer, composite, composite_dirty, selection,
          stack, active_tool, saved, fault, binary, ev, hist, pre_release, discarded,
          serial, samples>>

imageVars == <<width, height, layers, active_layer, composite, composite_dirty, selection>>
histVars == <<hist, pre_release, discarded, serial>>

SelectionTools == {"Rect Selection", "Lasso Selection"}

\* what the last handler did: "push", "undo", "redo", "save", "panic", "open",
\* "open failed" (the Open button, by the result of from_file), "undo none",
\* "redo none" (an undo or a redo that found no command), "release"
\* (the update of a pointer release that emitted no command; before holds the
\* tool and the selection that update found) or "other",
\* the serial number of the command it pushed, undid or redid (0 when none), the
\* name of that command, and, for an
\* undo that follows the push of the same command with no change of the layers in
\* between, the layer buffers before that push
EventOf(op, id, tool, before) == [op |-> op, id |-> id, tool |-> tool, before |-> before]
Event(op, id, tool) == EventOf(op, id, tool, None)

\* the image as the tools see it
St == [width |-> width, height |-> height, layers |-> layers,
       active_layer |-> active_layer, selection |-> selection]

Buffers(ls) == [i \in 1 .. Len(ls) |-> ls[i].data.buffer]

\* ImageStore::new(width, height): one white raster layer, composited
StoreNew(w, h) ==
    LET layer == [new_raster(w, h, "Layer 1") EXCEPT !.data = Raster(FromPixel(w, h, White))]
    IN [width |-> w, height |-> h, layers |-> <<layer>>, active_layer |-> 0,
        composite |-> composite_layers(w, h, <<layer>>), composite_dirty |-> FALSE,
        selection |-> None]

\* ImageStore::from_file(path) when the codec decodes the buffer
StoreFromFile(buffer) ==
    LET layer == [new_raster(buffer.w, buffer.h, "Background") EXCEPT !.data = Raster(buffer)]
    IN [width |-> buffer.w, height |-> buffer.h, layers |-> <<layer>>,
        active_layer |-> 0,
        composite |-> composite_layers(buffer.w, buffer.h, <<layer>>),
        composite_dirty |-> FALSE, selection |-> None]

\* AppState::new(width, height) (state.rs 125-148; ArsApp::new, ui.rs 32)
Init ==
    LET store == StoreNew(CanvasW, CanvasH)
    IN /\ width = store.width
       /\ height = store.height
       /\ layers = store.layers
       /\ active_layer = store.active_layer
       /\ composite = store.composite
       /\ composite_dirty = store.composite_dirty
       /\ selection = store.selection
       /\ stack = StackNew
       /\ active_tool = BrushNew(CanvasW, CanvasH)
       /\ saved = None
       /\ fault = FALSE
       /\ binary \in Builds
       /\ ev = Event("other", 0, "")
       /\ hist = <<Buffers(store.layers)>>
       /\ pre_release = None
       /\ discarded = {}
       /\ serial = 0
       /\ samples = 0

(***************************************************************************)
(* Tool::update of the active tool (the Box<dyn Tool> dispatch).  The      *)
(* result is [tool, layers, selection, cmd, marked, fault].                *)
(***************************************************************************)
WithSelection(r, sel) ==
    [tool |-> r.tool, layers |-> r.layers, selection |-> sel, cmd |-> r.cmd,
     marked |-> r.marked, fault |-> r.fault]

ToolUpdate(tool, st, input, color, build) ==
    CASE tool.name = "Brush" ->
           WithSelection(BrushUpdate(tool, st, input, color, build), st.selection)
      [] tool.name = "Eraser" ->
           WithSelection(EraserUpdate(tool, st, input, color, build), st.selection)
      [] tool.name \in {"Line", "Rectangle", "Ellipse"} ->
           WithSelection(ShapeUpdate(tool, st, input, color, build), st.selection)
      [] tool.name = "Rect Selection" ->
           LET r == RectSelectUpdate(tool, st, input)
           IN [tool |-> r.tool, layers |-> st.layers, selection |-> r.selection,
               cmd |-> None, marked |-> FALSE, fault |-> FALSE]
      [] tool.name = "Lasso Selection" ->
           LET r == LassoUpdate(tool, st, input)
           IN [tool |-> r.tool, layers |-> st.layers, selection |-> r.selection,
               cmd |-> None, marked |-> FALSE, fault |-> FALSE]
      [] tool.name = "Transform" ->
           WithSelection(TransformUpdate(tool, st, input), st.selection)

\* the tool a shortcut or a tool button installs (ui.rs 498-537, 655-693)
ToolNames == {"Brush", "Eraser", "Line", "Rectangle", "Ellipse", "Rect Selection",
              "Lasso Selection", "Transform"}
NewTool(name, w, h) ==
    CASE name = "Brush" -> BrushNew(w, h)
      [] name = "Eraser" -> EraserNew(w, h)
      [] name \in {"Line", "Rectangle"} -> ShapeNew(name, w, h)
      [] name = "Ellipse" -> EllipseNew(w, h)
      [] name = "Rect Selection" -> RectSelectNew
      [] name = "Lasso Selection" -> LassoNew
      [] name = "Transform" -> TransformNew

\* Tool::get_temp_layer: the live preview; the stroke tools return their scratch
\* buffer while they hold a dirty rectangle, the other tools never
get_temp_layer(tool) ==
    IF tool.name \in {"Brush", "Eraser", "Line", "Rectangle", "Ellipse"}
       /\ IsSome(tool.dirty_rect)
    THEN Some(tool.layer)
    ELSE None

\* ImageStore::get_composite(): what a read returns in the current state
GetCompositeResult ==
    IF composite_dirty THEN composite_layers(width, height, layers) ELSE composite

(***************************************************************************)
(* One frame's call of active_tool.update and the push of the command it   *)
(* returns (ui.rs 540-576).                                                *)
(***************************************************************************)
Frame(input, color) ==
    \E r \in {ToolUpdate(active_tool, St, input, color, binary)} :
      LET emitted == IsSome(r.cmd)
          id == serial + 1
      IN /\ ~fault
         /\ fault' = r.fault
         /\ active_tool' = r.tool
         /\ layers' = r.layers
         /\ selection' = r.selection
         /\ composite_dirty' = (composite_dirty \/ r.marked)
         /\ stack' = IF emitted
                     THEN StackPush(stack,
                            [Unwrap(r.cmd) EXCEPT
                               !.id = id,
                               !.on = IF Unwrap(r.cmd).layer_index < Len(layers)
                                      THEN layers[Unwrap(r.cmd).layer_index + 1].name
                                      ELSE @])
                     ELSE stack
         /\ serial' = IF emitted THEN id ELSE serial
         /\ discarded' = IF emitted
                         THEN discarded \cup
                              {stack.commands[i].id :
                                 i \in (stack.cursor + 1) .. Len(stack.commands)}
                         ELSE discarded
         /\ hist' = IF emitted
                    THEN Append(SubSeq(hist, 1, Min(stack.cursor + 1, Len(hist))),
                                Buffers(r.layers))
                    ELSE hist
         /\ pre_release' = IF emitted
                           THEN Some([id |-> id, before |-> Buffers(layers)])
                           ELSE IF r.layers # layers THEN None ELSE pre_release
         /\ ev' = IF r.fault THEN Event("panic", 0, "")
                  ELSE IF emitted THEN Event("push", id, Unwrap(r.cmd).name)
                  ELSE IF input.is_released
                  THEN EventOf("release", 0, "",
                               Some([tool |-> active_tool, selection |-> selection]))
                  ELSE Event("other", 0, "")
         /\ UNCHANGED <<width, height, active_layer, composite, saved, binary>>

\* a frame with the primary button down at point p
PressUpTo(p, color, max) ==
    /\ samples < max
    /\ serial < MaxCommits
    /\ samples' = samples + 1
    /\ Frame(ToolInput(Some(Pos(p[1], p[2])), TRUE, FALSE), color)

Press(p, color) == PressUpTo(p, color, MaxSamples)

\* the frame in which the button is let go
Release ==
    /\ samples' = 0
    /\ Frame(ToolInput(None, FALSE, TRUE), Black)

\* a frame with no button down
Idle ==
    /\ UNCHANGED samples
    /\ Frame(ToolInput(None, FALSE, FALSE), Black)

(***************************************************************************)
(* Undo and redo: the shortcuts (ui.rs 488-497) and the buttons            *)
(* (ui.rs 643-650) make the same call.                                     *)
(***************************************************************************)
Undo ==
    LET r == StackUndo(stack, layers)
        did == can_undo(stack)
        cmd == stack.commands[stack.cursor]
    IN /\ ~fault
       /\ stack' = r.stack
       /\ layers' = r.layers
       /\ composite_dirty' = (composite_dirty \/ r.marked)
       /\ ev' = IF did
                THEN EventOf("undo", cmd.id, cmd.name,
                             IF IsSome(pre_release) /\ Unwrap(pre_release).id = cmd.id
                             THEN Some(Unwrap(pre_release).before) ELSE None)
                ELSE Event("undo none", 0, "")
       /\ pre_release' = IF did THEN None ELSE pre_release
       /\ UNCHANGED <<width, height, active_layer, composite, selection, active_tool,
                      saved, fault, binary, hist, discarded, serial, samples>>

Redo ==
    LET r == StackRedo(stack, layers)
        did == can_redo(stack)
        cmd == stack.commands[stack.cursor + 1]
    IN /\ ~fault
       /\ stack' = r.stack
       /\ layers' = r.layers
       /\ composite_dirty' = (composite_dirty \/ r.marked)
       /\ ev' = IF did THEN Event("redo", cmd.id, cmd.name)
                ELSE Event("redo none", 0, "")
       /\ pre_release' = IF did THEN None ELSE pre_release
       /\ UNCHANGED <<width, height, active_layer, composite, selection, active_tool,
                      saved, fault, binary, hist, discarded, serial, samples>>

\* a tool shortcut or tool button: a new tool object replaces the active one
SwitchTool(name) ==
    /\ ~fault
    /\ active_tool' = NewTool(name, width, height)
    /\ samples' = 0
    /\ ev' = Event("other", 0, "")
    /\ UNCHANGED <<imageVars, stack, saved, fault, binary, histVars>>

(***************************************************************************)
(* The layers panel (ui.rs 98-209)                                         *)
(***************************************************************************)
\* format!("Layer {}", idx)
LayerName(idx) == "Layer " \o ToString(idx)

\* an add_layer that moves active_layer past the end of the list
AddLayerPastEnd ==
    /\ ~fault
    /\ Len(layers) < MaxLayers
    /\ layers' = SubSeq(layers, 1, active_layer + 1)
                 \o <<new_raster(width, height, LayerName(Len(layers) + 1))>>
                 \o SubSeq(layers, active_layer + 2, Len(layers))
    /\ active_layer' = Len(layers) + 1
    /\ composite_dirty' = TRUE
    /\ ev' = Event("other", 0, "")
    /\ pre_release' = None
    /\ UNCHANGED <<width, height, composite, selection, stack, active_tool, saved,
                   fault, binary, hist, discarded, serial, samples>>

\* "Add Layer": ImageStore::add_layer(Layer::new_raster(..)), while the list
\* holds fewer than n layers
AddLayerUpTo(n) ==
    /\ ~fault
    /\ Len(layers) < n
    /\ layers' = SubSeq(layers, 1, active_layer + 1)
                 \o <<new_raster(width, height, LayerName(Len(layers) + 1))>>
                 \o SubSeq(layers, active_layer + 2, Len(layers))
    /\ active_layer' = active_layer + 1
    /\ composite_dirty' = TRUE
    /\ ev' = Event("other", 0, "")
    /\ pre_release' = None
    /\ UNCHANGED <<width, height, composite, selection, stack, active_tool, saved,
                   fault, binary, hist, discarded, serial, samples>>

AddLayer == AddLayerUpTo(MaxLayers)

\* the layer's name is clicked
SelectLayer(idx) ==
    /\ ~fault
    /\ idx < Len(layers)
    /\ active_layer' = idx
    /\ ev' = Event("other", 0, "")
    /\ UNCHANGED <<width, height, layers, composite, composite_dirty, selection, stack,
                   active_tool, saved, fault, binary, histVars, samples>>

ToggleVisible(idx) ==
    /\ ~fault
    /\ idx < Len(layers)
    /\ layers' = [layers EXCEPT ![idx + 1].visible = ~@]
    /\ composite_dirty' = TRUE
    /\ ev' = Event("other", 0, "")
    /\ UNCHANGED <<width, height, active_layer, composite, selection, stack,
                   active_tool, saved, fault, binary, histVars, samples>>

\* the lock checkbox: no mark_dirty
ToggleAlphaLock(idx) ==
    /\ ~fault
    /\ idx < Len(layers)
    /\ layers' = [layers EXCEPT ![idx + 1].alpha_locked = ~@]
    /\ ev' = Event("other", 0, "")
    /\ UNCHANGED <<width, height, active_layer, composite, composite_dirty, selection,
                   stack, active_tool, saved, fault, binary, histVars, samples>>

ToggleClipped(idx) ==
    /\ ~fault
    /\ idx < Len(layers)
    /\ layers' = [layers EXCEPT ![idx + 1].clipped = ~@]
    /\ composite_dirty' = TRUE
    /\ ev' = Event("other", 0, "")
    /\ UNCHANGED <<width, height, active_layer, composite, selection, stack,
                   active_tool, saved, fault, binary, histVars, samples>>

\* the opacity slider and the blend combo box of the active layer: applied, and
\* the composite marked dirty, when either differs from the layer's
SetProps(opacity, blend) ==
    /\ ~fault
    /\ active_layer < Len(layers)
    /\ <<layers[active_layer + 1].opacity, layers[active_layer + 1].blend>>
         # <<opacity, blend>>
    /\ layers' = [layers EXCEPT ![active_layer + 1].opacity = opacity,
                                ![active_layer + 1].blend = blend]
    /\ composite_dirty' = TRUE
    /\ ev' = Event("other", 0, "")
    /\ UNCHANGED <<width, height, active_layer, composite, selection, stack,
                   active_tool, saved, fault, binary, histVars, samples>>

(***************************************************************************)
(* The top panel (ui.rs 603-700)                                           *)
(***************************************************************************)
\* an Open that empties the command stack before it knows the file decodes
OpenResetting(file) ==
    LET store == StoreFromFile(Unwrap(file))
    IN /\ ~fault
       /\ IF IsSome(file)
          THEN /\ width' = store.width
               /\ height' = store.height
               /\ layers' = store.layers
               /\ active_layer' = store.active_layer
               /\ composite' = store.composite
               /\ composite_dirty' = store.composite_dirty
               /\ selection' = store.selection
               /\ stack' = StackNew
               /\ hist' = <<Buffers(store.layers)>>
               /\ pre_release' = None
          ELSE /\ stack' = StackNew
               /\ UNCHANGED <<imageVars, hist, pre_release>>
       /\ ev' = Event(IF IsSome(file) THEN "open" ELSE "open failed", 0, "")
       /\ UNCHANGED <<active_tool, saved, fault, binary, discarded, serial, samples>>

\* "Open": file is an Option, None when the dialog is cancelled or from_file
\* fails; the tool and its scratch buffer stay as they are
Open(file) ==
    LET store == StoreFromFile(Unwrap(file))
    IN /\ ~fault
       /\ IF IsSome(file)
          THEN /\ width' = store.width
               /\ height' = store.height
               /\ layers' = store.layers
               /\ active_layer' = store.active_layer
               /\ composite' = store.composite
               /\ composite_dirty' = store.composite_dirty
               /\ selection' = store.selection
               /\ stack' = StackNew
               /\ hist' = <<Buffers(store.layers)>>
               /\ pre_release' = None
          ELSE UNCHANGED <<imageVars, stack, hist, pre_release>>
       /\ ev' = Event(IF IsSome(file) THEN "open" ELSE "open failed", 0, "")
       /\ UNCHANGED <<active_tool, saved, fault, binary, discarded, serial, samples>>

\* "Save": ImageStore::save(path) writes self.composite
Save ==
    /\ ~fault
    /\ saved' = Some(composite)
    /\ ev' = Event("save", 0, "")
    /\ UNCHANGED <<imageVars, stack, active_tool, fault, binary, histVars, samples>>

\* BrushTool::configure, "Load Texture": the picked image becomes the texture
LoadTexture(tex) ==
    /\ ~fault
    /\ active_tool.name = "Brush"
    /\ active_tool' = [active_tool EXCEPT !.texture = Some(tex)]
    /\ ev' = Event("other", 0, "")
    /\ UNCHANGED <<imageVars, stack, saved, fault, binary, histVars, samples>>

\* BrushTool::configure, "Clear Texture"
ClearTexture ==
    /\ ~fault
    /\ active_tool.name = "Brush"
    /\ IsSome(active_tool.texture)
    /\ active_tool' = [active_tool EXCEPT !.texture = None]
    /\ ev' = Event("other", 0, "")
    /\ UNCHANGED <<imageVars, stack, saved, fault, binary, histVars, samples>>

\* TransformTool::configure, "Confirm"
Confirm ==
    /\ ~fault
    /\ active_tool.name = "Transform"
    /\ serial < MaxCommits
    /\ active_tool' = TransformConfirm(active_tool)
    /\ ev' = Event("other", 0, "")
    /\ UNCHANGED <<imageVars, stack, saved, fault, binary, histVars, samples>>

\* the deselect shortcut (ui.rs 532-534)
Deselect ==
    /\ ~fault
    /\ selection' = None
    /\ ev' = Event("other", 0, "")
    /\ UNCHANGED <<width, height, layers, active_layer, composite, composite_dirty,
                   stack, active_tool, saved, fault, binary, histVars, samples>>

(***************************************************************************)
(* The resize handles of the canvas (ui.rs 439-463) call                   *)
(* ImageStore::resize(new_w, new_h), which the sources at hand do not      *)
(* hold.  It is modelled from the specification: the canvas takes the new  *)
(* dimensions and the buffer of every Raster and Tone layer is reallocated *)
(* to them at once; a pixel inside both sizes keeps its value and a new    *)
(* one is transparent.  The cached composite is reallocated and marked     *)
(* dirty.                                                                  *)
(***************************************************************************)
ResizeBuffer(img, w, h) ==
    [w |-> w, h |-> h,
     px |-> [c \in Coords(w, h) |->
               IF c[1] < img.w /\ c[2] < img.h THEN img.px[c] ELSE Transparent]]

\* a frame in which a resize handle is dragged to the size w x h
Resize(w, h) ==
    /\ ~fault
    /\ width' = w
    /\ height' = h
    /\ layers' = [i \in 1 .. Len(layers) |->
                    IF HasBuffer(layers[i].data)
                    THEN [layers[i] EXCEPT !.data.buffer = ResizeBuffer(@, w, h)]
                    ELSE layers[i]]
    /\ composite' = NewBuffer(w, h)
    /\ composite_dirty' = TRUE
    /\ pre_release' = None
    /\ ev' = Event("other", 0, "")
    /\ UNCHANGED <<active_layer, selection, stack, active_tool, saved, fault, binary,
                   hist, discarded, serial, samples>>

\* a composite() that leaves the dirty flag as it found it
UpdateTexturesUncleared ==
    /\ ~fault
    /\ composite' = GetCompositeResult
    /\ composite_dirty' = composite_dirty
    /\ ev' = Event("other", 0, "")
    /\ UNCHANGED <<width, height, layers, active_layer, selection, stack, active_tool,
                   saved, fault, binary, histVars, samples>>

\* update_textures (ui.rs 44-96): every frame reads get_composite()
UpdateTextures ==
    /\ ~fault
    /\ composite' = GetCompositeResult
    /\ composite_dirty' = FALSE
    /\ ev' = Event("other", 0, "")
    /\ UNCHANGED <<width, height, layers, active_layer, selection, stack, active_tool,
                   saved, fault, binary, histVars, samples>>

(***************************************************************************)
(* The inputs of the runs                                                  *)
(***************************************************************************)
\* pointer samples: two opposite corners of the canvas, and with them a point
\* to the right of the canvas
Corners == {<<0, 0>>, <<CanvasW - 1, CanvasH - 1>>}
Points == Corners \cup {<<CanvasW + 2, 0>>}
\* tools.primary_color
Primary == Black
\* the textures a file can hold: one opaque pixel
Textures == {FromPixel(1, 1, White)}

StrokeTools == {"Brush", "Eraser", "Line", "Rectangle", "Ellipse"}

(***************************************************************************)
(* Spec: the stroke tools on the one layer, undo, redo and the composite    *)
(* read of every frame.                                                    *)
(***************************************************************************)
Next ==
    \/ \E p \in Corners : Press(p, Primary)
    \/ Release
    \/ Undo
    \/ Redo
    \/ \E name \in StrokeTools : SwitchTool(name)
    \/ UpdateTextures

Spec == Init /\ [][Next]_vars

(***************************************************************************)
(* Properties of undo and redo                                             *)
(***************************************************************************)
\* n calls of undo(), then n calls of redo(), from the stack s and layers ls
RECURSIVE UndoTimes(_, _, _)
UndoTimes(s, ls, n) ==
    IF n = 0 THEN [stack |-> s, layers |-> ls]
    ELSE LET r == StackUndo(s, ls) IN UndoTimes(r.stack, r.layers, n - 1)

RECURSIVE RedoTimes(_, _, _)
RedoTimes(s, ls, n) ==
    IF n = 0 THEN [stack |-> s, layers |-> ls]
    ELSE LET r == StackRedo(s, ls) IN RedoTimes(r.stack, r.layers, n - 1)

UndoRedo(s, ls, n) ==
    LET u == UndoTimes(s, ls, n) IN RedoTimes(u.stack, u.layers, n)

\* the layers ls with the buffers bs
WithBuffers(ls, bs) == [i \in 1 .. Len(ls) |-> [ls[i] EXCEPT !.data.buffer = bs[i]]]

StrokeCommands == {"Brush Stroke", "Erase", "Line", "Rectangle"}

\* C1: with N committed stroke gestures on the stack, N calls of undo() followed
\* by N calls of redo() leave every layer buffer byte-identical to what it was
\* after the N-th gesture; and at every cursor position the layer buffers are
\* the ones the layers had when the cursor was last there.
C1_UndoRedoRoundTrip ==
    /\ Buffers(layers) = hist[stack.cursor + 1]
    /\ \A n \in 0 .. stack.cursor :
         Buffers(UndoRedo(stack, layers, n).layers) = Buffers(layers)

\* two gestures that changed pixels were undone and redone
C1_Witness ==
    /\ ev.op = "redo"
    /\ stack.cursor = 2
    /\ ~can_redo(stack)
    /\ hist[1] # hist[2]
    /\ hist[2] # hist[3]
    /\ Buffers(UndoTimes(stack, layers, 2).layers) = hist[1]

\* C2: a single undo() right after the push of a command of Brush, Eraser, Line
\* or Rectangle leaves the layer buffers byte-identical to what they were before
\* the release, and the composite read afterwards is the composition of the
\* restored layers.
C2_UndoRestoresRelease ==
    (ev.op = "undo" /\ IsSome(ev.before) /\ ev.tool \in StrokeCommands)
    => /\ Buffers(layers) = Unwrap(ev.before)
       /\ GetCompositeResult =
            composite_layers(width, height, WithBuffers(layers, Unwrap(ev.before)))

\* scenario A: the brush painted the white pixel (0, 0) black, the composite was
\* read, and the undo made the pixel white again while the cache still holds black
C2_Witness ==
    /\ ev.op = "undo"
    /\ IsSome(ev.before)
    /\ ev.tool = "Brush Stroke"
    /\ layers[1].data.buffer.px[<<0, 0>>] = White
    /\ composite.px[<<0, 0>>] = Black
    /\ GetCompositeResult.px[<<0, 0>>] = White

\* C3: a push with undone commands on the stack leaves can_redo() false and the
\* stack holding exactly the commands below the old cursor followed by the new
\* command; no undo or redo ever applies a command that a push discarded.
C3_PushDiscardsRedo ==
    /\ [][(ev'.op = "push" /\ stack.cursor < Len(stack.commands))
          => /\ ~can_redo(stack')
             /\ Len(stack'.commands) = stack.cursor + 1
             /\ SubSeq(stack'.commands, 1, stack.cursor)
                  = SubSeq(stack.commands, 1, stack.cursor)
             /\ stack'.commands[stack.cursor + 1].id = ev'.id
             /\ ev'.id \notin {stack.commands[i].id : i \in 1 .. Len(stack.commands)}]_vars
    /\ [](ev.op \in {"undo", "redo"} => ev.id \notin discarded)
    /\ [](\A i \in 1 .. Len(stack.commands) : stack.commands[i].id \notin discarded)

\* a command was undone, a push discarded it, and the new command was undone and
\* redone
C3_Witness ==
    /\ ev.op = "redo"
    /\ discarded # {}
    /\ Len(stack.commands) = 1
    /\ stack.commands[1].id = 2

\* C4: 0 <= cursor <= number of stored commands; can_undo() is true exactly when
\* cursor > 0, which is exactly when undo() moves the cursor; can_redo() is true
\* exactly when cursor < length, which is exactly when redo() moves the cursor.
\* (Both take &self: an operator of the stack alone.)
C4_CursorBounds ==
    /\ stack.cursor \in 0 .. Len(stack.commands)
    /\ can_undo(stack) <=> stack.cursor > 0
    /\ can_redo(stack) <=> stack.cursor < Len(stack.commands)
    /\ can_undo(stack) <=> StackUndo(stack, layers).stack # stack
    /\ can_redo(stack) <=> StackRedo(stack, layers).stack # stack

\* a stack with a command to undo and a command to redo
C4_Witness ==
    /\ stack.cursor = 1
    /\ Len(stack.commands) = 2
    /\ can_undo(stack)
    /\ can_redo(stack)

(***************************************************************************)
(* SpecPaint: the stroke tools on the one layer, with the alpha lock and   *)
(* the brush texture, and pointer samples off the canvas.                  *)
(***************************************************************************)
NextPaint ==
    \/ \E p \in Points : Press(p, Primary)
    \/ Release
    \/ Idle
    \/ \E name \in StrokeTools : SwitchTool(name)
    \/ ToggleAlphaLock(0)
    \/ \E tex \in Textures : LoadTexture(tex)
    \/ ClearTexture

SpecPaint == Init /\ [][NextPaint]_vars

\* the command the last handler pushed, when ev.op = "push"
Pushed == stack.commands[stack.cursor]
\* the buffer of the command's layer before and after that push
BeforePush == Unwrap(pre_release).before[Pushed.layer_index + 1]
AfterPush == layers[Pushed.layer_index + 1].data.buffer

\* the rectangle rect cut down to the canvas: [x, y, w, h]
ClampToCanvas(rect) ==
    LET x0 == Max(rect.minx, 0)
        y0 == Max(rect.miny, 0)
        x1 == Min(rect.maxx, width)
        y1 == Min(rect.maxy, height)
    IN [x |-> x0, y |-> y0, w |-> Max(x1 - x0, 0), h |-> Max(y1 - y0, 0)]

AllStrokeCommands == StrokeCommands \cup {"Ellipse"}

\* C5 as the spec states it: every command a stroke tool emits has before and
\* after blocks of the same width and height, equal to the accumulated dirty
\* rectangle clamped to the canvas, and its rectangle lies inside the layer.
C5_AsStated ==
    \A i \in 1 .. Len(stack.commands) :
      LET cmd == stack.commands[i]
          r == ClampToCanvas(cmd.dirty)
      IN cmd.name \in AllStrokeCommands
         => /\ cmd.old_patch.w = cmd.new_patch.w
            /\ cmd.old_patch.h = cmd.new_patch.h
            /\ <<cmd.x, cmd.y, cmd.old_patch.w, cmd.old_patch.h>> = <<r.x, r.y, r.w, r.h>>
            /\ cmd.x + cmd.old_patch.w <= width
            /\ cmd.y + cmd.old_patch.h <= height

\* C5, the part the code keeps: the blocks have the same size and lie inside
\* the layer
C5_InsideLayer ==
    \A i \in 1 .. Len(stack.commands) :
      LET cmd == stack.commands[i]
      IN /\ cmd.old_patch.w = cmd.new_patch.w
         /\ cmd.old_patch.h = cmd.new_patch.h
         /\ cmd.x + cmd.old_patch.w <= width
         /\ cmd.y + cmd.old_patch.h <= height

\* C6 as the spec states it: on an alpha-locked active layer a commit by Brush,
\* Line, Rectangle or Ellipse changes no pixel's alpha; a pixel of alpha 0 stays
\* as it is, and a stroked pixel of nonzero alpha takes the colour of the stroke
\* and keeps its alpha.
C6_AsStated ==
    (/\ ev.op = "push"
     /\ ev.tool \in {"Brush Stroke", "Line", "Rectangle", "Ellipse"}
     /\ layers[Pushed.layer_index + 1].alpha_locked)
    => \A c \in Coords(width, height) :
         /\ AfterPush.px[c][4] = BeforePush.px[c][4]
         /\ BeforePush.px[c][4] = 0 => AfterPush.px[c] = BeforePush.px[c]
         /\ (BeforePush.px[c][4] # 0 /\ c \in Pushed.stroke)
            => AfterPush.px[c] = <<Primary[1], Primary[2], Primary[3], BeforePush.px[c][4]>>
         /\ c \notin Pushed.stroke => AfterPush.px[c] = BeforePush.px[c]

\* C7 as the spec states it: on release the Eraser sets every pixel its stroke
\* covers to fully transparent, whether the layer is alpha-locked or not.
C7_AsStated ==
    (ev.op = "push" /\ ev.tool = "Erase")
    => \A c \in Pushed.stroke : AfterPush.px[c] = Transparent

(***************************************************************************)
(* SpecStore: the composite cache under strokes and the layers panel.      *)
(***************************************************************************)
\* the values the opacity slider and the blend combo box are set to
Opacities == {<<1, 2>>}
Blends == {"Normal", "Multiply"}
CacheTools == {"Brush", "Ellipse"}

NextStore ==
    \/ Press(<<0, 0>>, Primary)
    \/ Release
    \/ \E name \in CacheTools : SwitchTool(name)
    \/ AddLayer
    \/ \E idx \in 0 .. MaxLayers - 1 : SelectLayer(idx)
    \/ ToggleVisible(0)
    \/ ToggleClipped(1)
    \/ \E o \in Opacities, b \in Blends : SetProps(o, b)
    \/ UpdateTextures

SpecStore == Init /\ [][NextStore]_vars

\* C8 as the spec states it: after any sequence of layer mutations the buffer
\* get_composite() returns is the composition of the current layers; so the
\* cached composite is that composition whenever the dirty flag is false.
C8_AsStated ==
    ~fault => GetCompositeResult = composite_layers(width, height, layers)

(***************************************************************************)
(* SpecSave: Save among strokes, the visibility checkbox and the composite *)
(* read of every frame.                                                    *)
(***************************************************************************)
NextSave ==
    \/ \E p \in Corners : Press(p, Primary)
    \/ Release
    \/ ToggleVisible(0)
    \/ UpdateTextures
    \/ Save

SpecSave == Init /\ [][NextSave]_vars

\* C9 as the spec states it: the image save() writes is the composition of the
\* current layers, also when the layers were mutated since the last recomposite.
C9_AsStated ==
    ev.op = "save" => Unwrap(saved) = composite_layers(width, height, layers)

(***************************************************************************)
(* SpecTransform: an opened image, the rectangular selection and the       *)
(* Transform tool.                                                         *)
(***************************************************************************)
\* a pixel of alpha 0 that still carries a colour, as a decoded PNG can hold
Hidden == <<255, 0, 0, 0>>

\* the images "Open" decodes: opaque red, with the pixel (0, 0) of alpha 0
Files ==
    {[w |-> CanvasW, h |-> CanvasH,
      px |-> [c \in Coords(CanvasW, CanvasH) |-> IF c = <<0, 0>> THEN p ELSE Red]] :
       p \in {Hidden, Transparent}}

SelectTools == {"Rect Selection", "Transform"}

NextTransform ==
    \/ \E f \in Files : Open(Some(f))
    \/ \E name \in SelectTools : SwitchTool(name)
    \/ \E p \in Corners : Press(p, Primary)
    \/ Release
    \/ Idle
    \/ Confirm
    \/ Deselect

SpecTransform == Init /\ [][NextTransform]_vars

\* whether the pixel c lies in the rectangle rect
InRect(c, rect) == /\ rect.minx <= c[1] /\ c[1] < rect.maxx
                   /\ rect.miny <= c[2] /\ c[2] < rect.maxy

\* the last handler was a Transform commit whose placement rectangle is the
\* rectangle of the pick-up, and between the pick-up of a rectangular selection
\* and the commit nothing else wrote to the layer
DroppedInPlace ==
    /\ ev.op = "push"
    /\ ev.tool = "Transform"
    /\ active_tool.name = "Transform"
    /\ active_tool.source_rect = Some(Pushed.dirty)
    /\ BeforePush = [Pushed.old_patch EXCEPT !.px =
                       [c \in Coords(Pushed.old_patch.w, Pushed.old_patch.h) |->
                          IF InRect(c, Pushed.dirty) THEN Transparent
                          ELSE Pushed.old_patch.px[c]]]

\* C10 as the spec states it: a pick-up followed by a commit with the placement
\* rectangle unchanged leaves the layer byte-identical to its content before the
\* pick-up, whatever the layer holds.
C10_AsStated == DroppedInPlace => AfterPush = Pushed.old_patch

\* C10, amended: a pick-up followed by a commit with the placement rectangle
\* unchanged leaves every pixel of the layer as it was before the pick-up,
\* except the selected pixels of alpha 0, which are left fully transparent
\* (0, 0, 0, 0).
C10_DropInPlace ==
    DroppedInPlace
    => \A c \in Coords(AfterPush.w, AfterPush.h) :
         AfterPush.px[c] = IF InRect(c, Pushed.dirty) /\ Pushed.old_patch.px[c][4] = 0
                           THEN Transparent
                           ELSE Pushed.old_patch.px[c]

\* a selection holding an opaque pixel and a pixel of alpha 0 was picked up and
\* dropped in place: the opaque pixel is back
C10_Witness ==
    /\ DroppedInPlace
    /\ \E c \in Coords(AfterPush.w, AfterPush.h) :
         /\ InRect(c, Pushed.dirty)
         /\ Pushed.old_patch.px[c][4] = 0
    /\ \E c \in Coords(AfterPush.w, AfterPush.h) :
         /\ InRect(c, Pushed.dirty)
         /\ BeforePush.px[c] = Transparent
         /\ AfterPush.px[c] = Red

(***************************************************************************)
(* Properties of the Transform tool's command                              *)
(***************************************************************************)
\* the active tool is a Transform tool holding a floating buffer
Floating(tool) == tool.name = "Transform" /\ IsSome(tool.floating_buffer)

\* C11: a Transform commit emits exactly one command; its before block is the
\* full-layer snapshot taken at pick-up (the buffer the layer active at pick-up
\* held right before the pick-up), its after block the full buffer of that layer
\* after the stamp, both at (0, 0) on that layer; undoing the command leaves
\* that layer with its content before the pick-up.
C11_TransformCommand ==
    /\ [][(~Floating(active_tool) /\ Floating(active_tool'))
          => /\ active_tool'.layer_index = active_layer
             /\ active_tool'.original_layer_snapshot
                  = Some(layers[active_layer + 1].data.buffer)]_vars
    /\ [][(Floating(active_tool) /\ Floating(active_tool'))
          => /\ active_tool'.layer_index = active_tool.layer_index
             /\ active_tool'.original_layer_snapshot
                  = active_tool.original_layer_snapshot]_vars
    /\ [][(ev'.op = "push" /\ ev'.tool = "Transform")
          => /\ Floating(active_tool)
             /\ stack'.cursor = stack.cursor + 1
             /\ Len(stack'.commands) = stack.cursor + 1
             /\ LET cmd == stack'.commands[stack'.cursor]
                    li == active_tool.layer_index
                    snapshot == Unwrap(active_tool.original_layer_snapshot)
                IN /\ cmd.layer_index = li
                   /\ <<cmd.x, cmd.y>> = <<0, 0>>
                   /\ cmd.old_patch = snapshot
                   /\ cmd.new_patch = layers'[li + 1].data.buffer
                   /\ <<cmd.new_patch.w, cmd.new_patch.h>> = <<width, height>>
                   /\ StackUndo(stack', layers').layers[li + 1].data.buffer
                        = snapshot]_vars

\* a commit that left the layer different from the snapshot was pushed, and its
\* undo gives the snapshot back
C11_Witness ==
    /\ ev.op = "push"
    /\ ev.tool = "Transform"
    /\ Pushed.old_patch # Pushed.new_patch
    /\ AfterPush = Pushed.new_patch
    /\ StackUndo(stack, layers).layers[Pushed.layer_index + 1].data.buffer
         = Pushed.old_patch

\* the tools the tool shortcuts and buttons install
FreshTools == {NewTool(name, width, height) : name \in ToolNames}

\* C12: the Transform tool emits a command only in an update that finds the
\* committed flag set, and only the Confirm button sets that flag, touching
\* neither the layers nor the stack; the update of a pointer release that ends a
\* drag of a floating buffer with no confirm pending pushes no command, writes
\* to no layer, keeps the floating buffer and the placement rectangle, and ends
\* the drag.
C12_CommitOnlyOnConfirm ==
    /\ [][(ev'.op = "push" /\ ev'.tool = "Transform")
          => Floating(active_tool) /\ active_tool.committed]_vars
    /\ [][(active_tool'.name = "Transform" /\ active_tool'.committed
           /\ ~(active_tool.name = "Transform" /\ active_tool.committed))
          => /\ Floating(active_tool)
             /\ active_tool' = [active_tool EXCEPT !.committed = TRUE]
             /\ UNCHANGED <<layers, stack>>]_vars
    /\ [][(/\ Floating(active_tool)
           /\ ~active_tool.committed
           /\ samples > 0
           /\ samples' = 0
           /\ active_tool' \notin FreshTools)
          => /\ stack' = stack
             /\ layers' = layers
             /\ active_tool'.floating_buffer = active_tool.floating_buffer
             /\ active_tool'.current_rect = active_tool.current_rect
             /\ ~active_tool'.is_dragging
             /\ active_tool'.handle_drag = None]_vars

\* a drag moved the placement rectangle of a floating buffer and the release
\* ended it: no command yet, and the buffer still floats
C12_Witness ==
    /\ Floating(active_tool)
    /\ ~active_tool.committed
    /\ IsSome(active_tool.drag_start)
    /\ ~active_tool.is_dragging
    /\ samples = 0
    /\ active_tool.current_rect # active_tool.source_rect
    /\ stack.cursor = 0
    /\ layers[active_tool.layer_index + 1].data.buffer
         # Unwrap(active_tool.original_layer_snapshot)

(***************************************************************************)
(* SpecSelect: the two selection tools, with pointer samples on and off    *)
(* the canvas.                                                             *)
(***************************************************************************)
\* the pressed samples a lasso gesture may hold
MaxVertices == 3

SelectPoints == Corners \cup {<<CanvasW + 2, 0>>, <<-1, CanvasH>>}

NextSelect ==
    \/ \E p \in SelectPoints : PressUpTo(p, Primary, MaxVertices)
    \/ Release
    \/ \E name \in SelectionTools : SwitchTool(name)
    \/ Deselect

SpecSelect == Init /\ [][NextSelect]_vars

\* the last handler was the release that completed a gesture of the tool name
Completed(name) ==
    /\ ev.op = "release"
    /\ IsSome(ev.before)
    /\ Unwrap(ev.before).tool.name = name

\* the tool and the selection that release found
Gesture == Unwrap(ev.before).tool
SelectionBefore == Unwrap(ev.before).selection

\* the release found a rectangle gesture with both of its points recorded
RectCompleted ==
    /\ Completed("Rect Selection")
    /\ IsSome(Gesture.start_pos)
    /\ IsSome(Gesture.current_pos)

\* the rectangle the start and current points span: [minx, miny, maxx, maxy]
Spanned ==
    LET sx == PosX(Unwrap(Gesture.start_pos))
        sy == PosY(Unwrap(Gesture.start_pos))
        ex == PosX(Unwrap(Gesture.current_pos))
        ey == PosY(Unwrap(Gesture.current_pos))
    IN MkRect(Min(sx, ex), Min(sy, ey), Max(sx, ex), Max(sy, ey))

\* C13: the release of a rectangle gesture whose start and current points span
\* zero width or zero height leaves the selection none, whatever it was.
C13_ZeroAreaClears ==
    (RectCompleted /\ (RectWidth(Spanned) = 0 \/ RectHeight(Spanned) = 0))
    => selection = None

\* a zero-area rectangle gesture cleared a selection
C13_Witness ==
    /\ RectCompleted
    /\ RectWidth(Spanned) = 0 \/ RectHeight(Spanned) = 0
    /\ IsSome(SelectionBefore)
    /\ selection = None

\* the values of the selection mask, when there is one
MaskValues ==
    IF IsSome(selection)
    THEN {Unwrap(selection).px[c] :
            c \in Coords(Unwrap(selection).w, Unwrap(selection).h)}
    ELSE {}

\* the selection is a mask of the size of the canvas that is 255 at exactly the
\* canvas pixels of rect
MaskOf(rect) ==
    /\ IsSome(selection)
    /\ <<Unwrap(selection).w, Unwrap(selection).h>> = <<width, height>>
    /\ \A c \in Coords(width, height) :
         Unwrap(selection).px[c] = IF InRect(c, rect) THEN 255 ELSE 0

\* C15 as the spec states it: the release of a rectangle gesture whose start and
\* current points span a rectangle of nonzero width and height leaves as the
\* selection a mask of the size of the canvas that is 255 at exactly the pixels
\* of that rectangle that lie on the canvas; a mask holds no value but 0 and 255.
C15_AsStated ==
    /\ (RectCompleted /\ RectWidth(Spanned) > 0 /\ RectHeight(Spanned) > 0)
       => MaskOf(Spanned)
    /\ MaskValues \subseteq {0, 255}

\* the bounding box of the vertices of the lasso gesture
VertexBox ==
    LET xs == {Gesture.points[i][1] : i \in 1 .. Len(Gesture.points)}
        ys == {Gesture.points[i][2] : i \in 1 .. Len(Gesture.points)}
    IN MkRect(SetMin(xs), SetMin(ys), SetMax(xs), SetMax(ys))

\* C14: the release of a lasso gesture with fewer than 3 vertices leaves the
\* selection exactly as it was; with 3 or more vertices it leaves a new mask of
\* the size of the canvas, whose selected pixels lie in the bounding box of the
\* vertices, whatever the selection was.
C14_LassoVertices ==
    /\ (Completed("Lasso Selection") /\ Len(Gesture.points) < 3)
       => selection = SelectionBefore
    /\ (Completed("Lasso Selection") /\ Len(Gesture.points) >= 3)
       => /\ IsSome(selection)
          /\ <<Unwrap(selection).w, Unwrap(selection).h>> = <<width, height>>
          /\ \A c \in Coords(width, height) :
               Unwrap(selection).px[c] # 0 => InRect(c, VertexBox)

\* a lasso gesture of two vertices was released over a selection, which is still
\* there
C14_Witness ==
    /\ Completed("Lasso Selection")
    /\ Len(Gesture.points) = 2
    /\ IsSome(SelectionBefore)
    /\ selection = SelectionBefore

\* a lasso gesture of three vertices replaced a selection by another one
LassoReplaced ==
    /\ Completed("Lasso Selection")
    /\ Len(Gesture.points) = 3
    /\ IsSome(SelectionBefore)
    /\ selection # SelectionBefore
    /\ 255 \in MaskValues

(***************************************************************************)
(* SpecMasked: strokes on a canvas that carries a selection.               *)
(***************************************************************************)
MaskedTools == {"Rect Selection", "Brush", "Eraser"}

NextMasked ==
    \/ \E p \in Corners : Press(p, Primary)
    \/ Release
    \/ \E name \in MaskedTools : SwitchTool(name)
    \/ Deselect

SpecMasked == Init /\ [][NextMasked]_vars

\* C16 as the spec states it: with a selection mask active, the commit of a
\* stroke tool changes only pixels of the layer whose mask value is 255.
C16_AsStated ==
    (ev.op = "push" /\ ev.tool \in AllStrokeCommands /\ IsSome(selection))
    => \A c \in Coords(width, height) :
         Unwrap(selection).px[c] # 255 => AfterPush.px[c] = BeforePush.px[c]

(***************************************************************************)
(* SpecSwitch: gestures that a tool button interrupts.  The layers change  *)
(* in this specification by tool updates only: by the commit that ends a   *)
(* gesture, which appends the buffers it leaves to hist, and by the        *)
(* pick-up that begins one.  As long as no interrupted gesture has left a  *)
(* layer changed, hist[stack.cursor + 1] is therefore what the layers held *)
(* when the gesture in progress began.                                     *)
(***************************************************************************)
SwitchTools == {"Brush", "Rect Selection", "Transform"}

NextSwitch ==
    \/ \E p \in Corners : Press(p, Primary)
    \/ Release
    \/ Idle
    \/ \E name \in SwitchTools : SwitchTool(name)
    \/ Confirm

SpecSwitch == Init /\ [][NextSwitch]_vars

\* a stroke tool with a dirty rectangle, or Transform with a floating buffer
Stroking(tool) == tool.name \in StrokeTools /\ IsSome(tool.dirty_rect)
InGesture(tool) == Stroking(tool) \/ Floating(tool)

\* the step of a tool button: only it leaves a new tool object behind
Switched == active_tool' \in FreshTools /\ samples' = 0 /\ ev'.op = "other"

\* C17 as the spec states it: a tool switch in the middle of a gesture leaves
\* every layer buffer as it was before the gesture began and pushes no command.
C17_AsStated ==
    [][(InGesture(active_tool) /\ Switched)
       => /\ Buffers(layers') = hist[stack.cursor + 1]
          /\ stack' = stack]_vars

(***************************************************************************)
(* SpecOutside: stroke gestures with samples off the canvas, to the right  *)
(* of it and above and left of it.                                         *)
(***************************************************************************)
OutsidePoints == {<<0, 0>>, <<CanvasW + 2, 0>>, <<-3, -3>>}
OutsideTools == {"Brush", "Eraser", "Line"}

NextOutside ==
    \/ \E p \in OutsidePoints : Press(p, Primary)
    \/ Release
    \/ \E name \in OutsideTools : SwitchTool(name)

SpecOutside == Init /\ [][NextOutside]_vars

\* the dirty rectangle of the tool holds no pixel of the canvas
OffCanvas(tool) ==
    /\ Stroking(tool)
    /\ \/ ClampToCanvas(Unwrap(tool.dirty_rect)).w = 0
       \/ ClampToCanvas(Unwrap(tool.dirty_rect)).h = 0

\* C18 as the spec states it: no update of a stroke tool faults, wherever the
\* samples of the gesture lie, and the release of a gesture that lies entirely
\* outside the canvas emits no command and leaves every layer unchanged.
C18_AsStated ==
    [][/\ active_tool.name \in StrokeTools => ~fault'
       /\ (OffCanvas(active_tool) /\ samples' = 0 /\ ~Switched)
          => (ev'.op = "release" /\ layers' = layers /\ stack' = stack)]_vars

\* the part of C18 that needs no subtraction: the release of a gesture that lies
\* entirely outside the canvas emits no command and changes no layer
C18_NoCommandOutside ==
    [][(OffCanvas(active_tool) /\ samples' = 0 /\ ~Switched)
       => (ev'.op \in {"release", "panic"} /\ layers' = layers /\ stack' = stack)]_vars

(***************************************************************************)
(* SpecStale: Transform on a second layer, and an Open that replaces the   *)
(* image while the tool holds a floating buffer.                           *)
(***************************************************************************)
NextStale ==
    \/ AddLayer
    \/ \E f \in Files : Open(Some(f))
    \/ \E name \in SelectTools : SwitchTool(name)
    \/ \E p \in Corners : Press(p, Primary)
    \/ Release
    \/ Confirm

SpecStale == Init /\ [][NextStale]_vars

\* the layer index the next update of the active tool uses: the one Transform
\* recorded at the pick-up while it holds a floating buffer, else active_layer
UsedLayerIndex ==
    IF Floating(active_tool) THEN active_tool.layer_index ELSE active_layer

\* C19 as the spec states it: with a layer index that is out of range, no
\* operation faults and none emits a command; this covers the commit of a
\* Transform whose pick-up layer an Open has replaced away.
C19_AsStated ==
    [][UsedLayerIndex >= Len(layers) => (~fault' /\ ev'.op # "push")]_vars

(***************************************************************************)
(* SpecApi: CommandStack::undo and ::redo as functions of their arguments, *)
(* with the composite rendered in between.                                 *)
(* The application never builds a Vector layer and Open empties the stack, *)
(* so the image and the stack start here as any caller of the two          *)
(* functions may pass them: one or two layers, Raster or Vector, and one   *)
(* or two commands whose layer_index runs up to MaxLayers.                 *)
(***************************************************************************)
ApiLayerKinds == {StoreNew(CanvasW, CanvasH).layers[1], new_vector("Layer 1")}
ApiLayers == {<<a>> : a \in ApiLayerKinds}
             \cup {<<a, b>> : a \in ApiLayerKinds, b \in ApiLayerKinds}

ApiCommand(layer_index, id) ==
    [PatchCommand("Brush Stroke", layer_index, 0, 0,
                  [w |-> 1, h |-> 1, px |-> [c \in Coords(1, 1) |-> Red]],
                  [w |-> 1, h |-> 1, px |-> [c \in Coords(1, 1) |-> Black]],
                  MkRect(0, 0, 1, 1), {<<0, 0>>})
       EXCEPT !.id = id]

ApiStacks ==
    LET one == {<<ApiCommand(i, 1)>> : i \in 0 .. MaxLayers}
        two == {<<ApiCommand(i, 1), ApiCommand(j, 2)>> :
                  i \in 0 .. MaxLayers, j \in 0 .. MaxLayers}
    IN {[commands |-> q[1], cursor |-> q[2]] :
          q \in {p \in (one \cup two) \X (0 .. 2) : p[2] <= Len(p[1])}}

InitApi ==
    /\ width = CanvasW
    /\ height = CanvasH
    /\ layers \in ApiLayers
    /\ active_layer = 0
    /\ composite = NewBuffer(CanvasW, CanvasH)
    /\ composite_dirty = TRUE
    /\ selection = None
    /\ stack \in ApiStacks
    /\ active_tool = BrushNew(CanvasW, CanvasH)
    /\ saved = None
    /\ fault = FALSE
    /\ binary \in Builds
    /\ ev = Event("other", 0, "")
    /\ hist = <<Buffers(layers)>>
    /\ pre_release = None
    /\ discarded = {}
    /\ serial = Len(stack.commands)
    /\ samples = 0

NextApi ==
    \/ Undo
    \/ Redo
    \/ UpdateTextures

SpecApi == InitApi /\ [][NextApi]_vars

\* the command has no layer to write: its index is out of range, or the layer
\* holds Vector data
NoTarget(ls, cmd) ==
    \/ cmd.layer_index >= Len(ls)
    \/ ls[cmd.layer_index + 1].data.kind = "Vector"

\* C20: undo() and redo() of a command whose layer index is out of range, or
\* whose layer holds Vector data, do not fault and change no pixel of any layer.
C20_GuardedUndoRedo ==
    [][/\ (ev'.op = "undo" /\ NoTarget(layers, stack.commands[stack.cursor]))
          => (~fault' /\ layers' = layers)
       /\ (ev'.op = "redo" /\ NoTarget(layers, stack.commands[stack.cursor + 1]))
          => (~fault' /\ layers' = layers)]_vars

\* an undo ran on a command whose layer index is out of range, above a layer
\* whose pixels differ from the command's block
C20_Witness ==
    /\ ev.op = "undo"
    /\ stack.commands[stack.cursor + 1].layer_index >= Len(layers)
    /\ HasBuffer(layers[Len(layers)].data)

\* a redo ran on a command whose layer holds Vector data
C20_VectorRedo ==
    /\ ev.op = "redo"
    /\ stack.commands[stack.cursor].layer_index < Len(layers)
    /\ layers[stack.commands[stack.cursor].layer_index + 1].data.kind = "Vector"

\* C28: undo() with the cursor at 0 and redo() with the cursor at the length of
\* the command list leave the cursor, the command list, every layer buffer and
\* the composite dirty flag as they were.
C28_NothingToUndoOrRedo ==
    [][/\ (stack.cursor = 0 /\ Undo) => UNCHANGED <<stack, layers, composite_dirty>>
       /\ (stack.cursor = Len(stack.commands) /\ Redo)
          => UNCHANGED <<stack, layers, composite_dirty>>]_vars

\* an undo found the cursor at 0 below a command and a rendered composite
C28_Witness ==
    /\ ev.op = "undo none"
    /\ stack.cursor = 0
    /\ Len(stack.commands) > 0
    /\ ~composite_dirty

\* a redo found the cursor at the end of the list
C28_RedoWitness ==
    /\ ev.op = "redo none"
    /\ stack.cursor = Len(stack.commands)
    /\ ~composite_dirty

(***************************************************************************)
(* SpecInsert: strokes, layer selection, Add Layer, undo and redo.  The    *)
(* list may grow to MaxLayers + 1 layers, so that a layer can be inserted  *)
(* below a layer that already carries a command.                           *)
(***************************************************************************)
InsertPoint == <<0, 0>>

NextInsert ==
    \/ Press(InsertPoint, Primary)
    \/ Release
    \/ AddLayerUpTo(MaxLayers + 1)
    \/ \E idx \in 0 .. MaxLayers : SelectLayer(idx)
    \/ Undo
    \/ Redo

SpecInsert == Init /\ [][NextInsert]_vars

\* the layers an undo or a redo step changes
Modified == {i \in 1 .. Len(layers) : layers'[i] # layers[i]}

\* C29: undo() and redo() of a command modify only the layer on which the
\* command's gesture was committed, wherever that layer is in the list by then.
C29_AsStated ==
    [][/\ ev'.op = "undo"
          => \A i \in Modified : layers[i].name = stack.commands[stack.cursor].on
       /\ ev'.op = "redo"
          => \A i \in Modified : layers[i].name = stack.commands[stack.cursor + 1].on]_vars

(***************************************************************************)
(* SpecUndoAll: strokes, the rectangular selection and the Transform tool  *)
(* on the one layer of a new image, with undo and redo at any moment.  A   *)
(* tool is switched only between gestures: never during a stroke and never *)
(* while a buffer floats.                                                  *)
(***************************************************************************)
NextUndoAll ==
    \/ \E p \in Corners : Press(p, Primary)
    \/ Release
    \/ Idle
    \/ Confirm
    \/ \E name \in SwitchTools :
         ~InGesture(active_tool) /\ samples = 0 /\ SwitchTool(name)
    \/ Undo
    \/ Redo

SpecUndoAll == Init /\ [][NextUndoAll]_vars

\* C30: between gestures, calling undo() until can_undo() is false leaves every
\* layer with the content it had when the command stack was empty.
C30_AsStated ==
    (~fault /\ ~InGesture(active_tool))
    => Buffers(UndoTimes(stack, layers, stack.cursor).layers) = hist[1]

(***************************************************************************)
(* SpecResize: the right handle of the canvas dragged while a stroke is in *)
(* progress.  The canvas can grow by one column and shrink to a single     *)
(* one; GrownCorner is on the canvas once it has grown, and every sample   *)
(* lies on the canvas.                                                     *)
(***************************************************************************)
ResizeWidths == {1, CanvasW + 1}
GrownCorner == <<CanvasW, 0>>
ResizeTools == {"Brush", "Line"}

NextResize ==
    \/ \E p \in {<<0, 0>>, GrownCorner} : p[1] < width /\ Press(p, Primary)
    \/ Release
    \/ \E name \in ResizeTools : SwitchTool(name)
    \/ \E w \in ResizeWidths : Resize(w, height)

SpecResize == Init /\ [][NextResize]_vars

\* the canvas has changed size since the last update of the tool
Outdated(tool) == tool.layer.w # width \/ tool.layer.h # height

\* the step is an update of the active tool: a pressed sample or a release
Updated == samples' = samples + 1 \/ ev'.op \in {"release", "push", "panic"}

\* C21 as the spec states it: the first update of a stroke tool after the canvas
\* changed size in the middle of its gesture does not fault and leaves the
\* scratch buffer at the new size, and when that update is the release it
\* writes no pixel into a layer.
C21_AsStated ==
    [][(Stroking(active_tool) /\ Outdated(active_tool) /\ Updated)
       => /\ ~fault'
          /\ active_tool'.layer.w = width /\ active_tool'.layer.h = height
          /\ ev'.op \in {"release", "push"} => Buffers(layers') = Buffers(layers)]_vars

(***************************************************************************)
(* SpecOpen: the Open button, with files that decode and one that does     *)
(* not, between strokes and undos.                                         *)
(***************************************************************************)
OpenTools == {"Brush", "Eraser"}

NextOpen ==
    \/ \E file \in {None} \cup {Some(f) : f \in Files} : Open(file)
    \/ \E p \in Corners : Press(p, Primary)
    \/ Release
    \/ Undo
    \/ \E name \in OpenTools : SwitchTool(name)

SpecOpen == Init /\ [][NextOpen]_vars

\* C22: an Open that fails leaves the layers, the active layer, the canvas size,
\* the command stack and the active tool as they were; an Open that succeeds
\* replaces the image by the decoded one and leaves the command stack empty.
C22_OpenFailureKeepsState ==
    [][/\ ev'.op = "open failed"
          => UNCHANGED <<width, height, layers, active_layer, stack, active_tool>>
       /\ ev'.op = "open"
          => /\ stack' = StackNew
             /\ Len(layers') = 1 /\ active_layer' = 0
             /\ layers'[1].data.buffer \in Files
             /\ width' = layers'[1].data.buffer.w
             /\ height' = layers'[1].data.buffer.h]_vars

\* an Open failed over a painted layer, a command on the stack and a stroke in
\* progress
C22_Witness ==
    /\ ev.op = "open failed"
    /\ stack.cursor > 0
    /\ Buffers(layers) # hist[1]
    /\ Stroking(active_tool)

(***************************************************************************)
(* SpecLayers: the layer list under construction, Open, Add Layer, the     *)
(* selection of a layer and the flags of the layers panel.                 *)
(***************************************************************************)
NextLayers ==
    \/ AddLayer
    \/ \E idx \in 0 .. MaxLayers - 1 : SelectLayer(idx)
    \/ \E f \in Files : Open(Some(f))
    \/ \E idx \in 0 .. MaxLayers - 1 : ToggleVisible(idx)
    \/ \E idx \in 0 .. MaxLayers - 1 : ToggleAlphaLock(idx)
    \/ \E idx \in 0 .. MaxLayers - 1 : ToggleClipped(idx)

SpecLayers == Init /\ [][NextLayers]_vars

\* C23: the layer list is never empty and active_layer is the index of one of
\* its layers.
C23_ActiveLayerInRange ==
    /\ Len(layers) >= 1
    /\ active_layer >= 0
    /\ active_layer < Len(layers)

\* layers were added up to the bound and the bottom one selected afterwards
C23_Witness ==
    /\ Len(layers) = MaxLayers
    /\ active_layer = 0

(***************************************************************************)
(* SpecClip: composite_layers as a function of the layer list.  The list   *)
(* starts as any one or two of the layers below: a buffer whose alpha is   *)
(* 0, 85 and 255 in different pixels, as Raster or as Tone data, opaque    *)
(* buffers in red, in green and in black and white, and a Vector layer,    *)
(* each clipped or not, in Normal or Multiply mode, at opacity 1 or 1/2.   *)
(***************************************************************************)
Patchy ==
    [w |-> CanvasW, h |-> CanvasH,
     px |-> [c \in Coords(CanvasW, CanvasH) |->
               IF c = <<0, 0>> THEN Transparent
               ELSE IF c = <<1, 0>> THEN <<0, 0, 255, 85>>
               ELSE White]]

Green == <<0, 255, 0, 255>>

\* an opaque buffer of two colours
Striped ==
    [w |-> CanvasW, h |-> CanvasH,
     px |-> [c \in Coords(CanvasW, CanvasH) |-> IF c[1] = 0 THEN Black ELSE White]]

ClipData == {Raster(Patchy), Tone(Patchy), Raster(FromPixel(CanvasW, CanvasH, Red)),
             Raster(FromPixel(CanvasW, CanvasH, Green)), Raster(Striped), Vector}

ClipLayers ==
    {[name |-> "Layer 1", visible |-> TRUE, alpha_locked |-> FALSE, clipped |-> cl,
      opacity |-> o, blend |-> b, data |-> d] :
       cl \in BOOLEAN, o \in {<<1, 1>>, <<1, 2>>}, b \in {"Normal", "Multiply"},
       d \in ClipData}

InitClip ==
    /\ width = CanvasW
    /\ height = CanvasH
    /\ layers \in {<<a>> : a \in ClipLayers}
                  \cup {<<a, b>> : a \in ClipLayers, b \in ClipLayers}
    /\ active_layer = 0
    /\ composite = NewBuffer(CanvasW, CanvasH)
    /\ composite_dirty = TRUE
    /\ selection = None
    /\ stack = StackNew
    /\ active_tool = BrushNew(CanvasW, CanvasH)
    /\ saved = None
    /\ fault = FALSE
    /\ binary = "checked"
    /\ ev = Event("other", 0, "")
    /\ hist = <<Buffers(layers)>>
    /\ pre_release = None
    /\ discarded = {}
    /\ serial = 0
    /\ samples = 0

NextClip ==
    \/ \E idx \in 0 .. MaxLayers - 1 : ToggleVisible(idx)
    \/ UpdateTextures

SpecClip == InitClip /\ [][NextClip]_vars

\* layer i without its clipped flag, its alpha scaled by m / 255
Unclipped(ls, i, m) ==
    [ls EXCEPT ![i].clipped = FALSE,
               ![i].opacity = <<ls[i].opacity[1] * m, ls[i].opacity[2] * 255>>]

\* C24: the cached composite, once rendered, shows every visible clipped layer
\* above a Raster or Tone layer as the same layer unclipped with its alpha
\* multiplied, pixel by pixel, by the alpha of the buffer below (nothing where
\* that alpha is 0), and a clipped layer at the bottom or above a Vector layer
\* exactly as if it were not clipped.
C24_ClipByLayerBelow ==
    ~composite_dirty =>
      \A i \in 1 .. Len(layers) :
        (layers[i].visible /\ layers[i].clipped) =>
          IF i > 1 /\ HasBuffer(layers[i - 1].data)
          THEN \A c \in Coords(width, height) :
                 LET m == layers[i - 1].data.buffer.px[c][4]
                 IN /\ composite.px[c]
                         = composite_layers(width, height, Unclipped(layers, i, m)).px[c]
                    /\ m = 0 =>
                         composite.px[c]
                           = composite_layers(width, height,
                                              [layers EXCEPT ![i].visible = FALSE]).px[c]
          ELSE composite = composite_layers(width, height,
                                            [layers EXCEPT ![i].clipped = FALSE])

\* a rendered composite of a clipped red layer above the buffer of mixed alpha,
\* and one of a clipped layer above a Vector layer
C24_Witness ==
    /\ ~composite_dirty
    /\ Len(layers) = 2
    /\ layers[2].visible /\ layers[2].clipped
    /\ layers[1].data = Raster(Patchy)
    /\ layers[2].data = Raster(FromPixel(CanvasW, CanvasH, Red))
    /\ composite.px[<<0, 0>>] = Transparent
    /\ composite.px[<<2, 0>>] # White

\* a visible layer at opacity 1 in Normal mode whose every pixel has alpha 255
Plain(l) ==
    /\ l.visible /\ l.opacity = <<1, 1>> /\ l.blend = "Normal"
    /\ HasBuffer(l.data)
    /\ \A c \in Coords(l.data.buffer.w, l.data.buffer.h) : l.data.buffer.px[c][4] = 255

\* C25: the rendered composite of one plain layer is that layer's buffer, and
\* the rendered composite of two plain layers is the buffer of the top one.
C25_OpaqueNormal ==
    ~composite_dirty =>
      /\ (Len(layers) = 1 /\ Plain(layers[1])) => composite = layers[1].data.buffer
      /\ (Len(layers) = 2 /\ Plain(layers[1]) /\ Plain(layers[2]))
         => composite = layers[2].data.buffer

\* the rendered composite of the green layer above the striped one
C25_Witness ==
    /\ ~composite_dirty
    /\ Len(layers) = 2 /\ Plain(layers[1]) /\ Plain(layers[2])
    /\ layers[1].data = Raster(Striped)
    /\ layers[2].data = Raster(FromPixel(CanvasW, CanvasH, Green))
    /\ composite.px[<<0, 0>>] = Green

\* scenario B: plain red below, opaque green in Multiply mode at opacity 1/2 above
ScenarioB ==
    /\ Len(layers) = 2
    /\ Plain(layers[1])
    /\ layers[1].data = Raster(FromPixel(CanvasW, CanvasH, Red))
    /\ layers[2].visible /\ layers[2].blend = "Multiply" /\ layers[2].opacity = <<1, 2>>
    /\ layers[2].data = Raster(FromPixel(CanvasW, CanvasH, Green))

\* C26: in scenario B every pixel of the rendered composite has alpha 255 and, in
\* each colour channel, 1/2 * (red * green / 255) + 1/2 * red cut down to an
\* integer.
C26_MultiplyHalf ==
    (~composite_dirty /\ ScenarioB)
    => \A c \in Coords(width, height) :
         /\ composite.px[c][4] = 255
         /\ \A k \in 1 .. 3 :
              composite.px[c][k] = (Red[k] * Green[k] + 255 * Red[k]) \div (2 * 255)

\* the composite of scenario B was rendered: dark red
C26_Witness ==
    /\ ~composite_dirty
    /\ ScenarioB
    /\ composite.px[<<0, 0>>] = <<127, 0, 0, 255>>

\* C27: a call of composite() leaves the dirty flag cleared and the cache equal
\* to what a recomposition of the layers gives, so that a second call with no
\* mutation in between returns the same bytes and changes nothing.  (The steps
\* of this specification that leave the layers alone are the calls.)
C27_CompositeIdempotent ==
    [][layers' = layers
       => /\ ~composite_dirty'
          /\ GetCompositeResult' = composite'
          /\ composite' = composite_layers(width, height, layers)
          /\ ~composite_dirty => composite' = composite]_vars

\* a composite rendered again after a layer was hidden
C27_Witness ==
    /\ ~composite_dirty
    /\ Len(layers) = 2
    /\ ~layers[2].visible
    /\ layers[1].visible
    /\ composite = composite_layers(width, height, layers)
    /\ composite # NewBuffer(width, height)

(***************************************************************************)
(* SpecScratch: the stroke tools' update on an image whose layers are      *)
(* Raster or Vector.  The application never builds a Vector layer, so the  *)
(* image starts here as a caller of Tool::update may pass it: one or two   *)
(* layers of either kind, the first one active, and an empty stack.        *)
(***************************************************************************)
ScratchTools == {"Brush", "Eraser", "Line", "Rectangle"}

InitScratch ==
    /\ width = CanvasW
    /\ height = CanvasH
    /\ layers \in ApiLayers
    /\ active_layer = 0
    /\ composite = NewBuffer(CanvasW, CanvasH)
    /\ composite_dirty = TRUE
    /\ selection = None
    /\ stack = StackNew
    /\ active_tool = BrushNew(CanvasW, CanvasH)
    /\ saved = None
    /\ fault = FALSE
    /\ binary \in Builds
    /\ ev = Event("other", 0, "")
    /\ hist = <<Buffers(layers)>>
    /\ pre_release = None
    /\ discarded = {}
    /\ serial = 0
    /\ samples = 0

NextScratch ==
    \/ \E p \in Corners : Press(p, Primary)
    \/ Release
    \/ \E idx \in 0 .. MaxLayers - 1 : SelectLayer(idx)
    \/ \E name \in ScratchTools : SwitchTool(name)

SpecScratch == InitScratch /\ [][NextScratch]_vars

\* the scratch pixels of nonzero alpha
Drawn(tool) == {c \in Coords(tool.layer.w, tool.layer.h) : tool.layer.px[c][4] > 0}

\* the pixel c lies in the dirty rectangle, if there is one
InDirty(c, dirty) ==
    /\ IsSome(dirty)
    /\ Unwrap(dirty).minx <= c[1] /\ c[1] < Unwrap(dirty).maxx
    /\ Unwrap(dirty).miny <= c[2] /\ c[2] < Unwrap(dirty).maxy

\* C31: after every update of a stroke tool, each scratch pixel of nonzero alpha
\* lies inside the tool's dirty rectangle; with no dirty rectangle the scratch
\* buffer is fully transparent.
C31_AsStated ==
    (~fault /\ active_tool.name \in StrokeTools)
    => \A c \in Drawn(active_tool) : InDirty(c, active_tool.dirty_rect)

(***************************************************************************)
(* Properties of the stroke tools' gesture protocol                        *)
(***************************************************************************)
\* the step is a pressed sample handled by a stroke tool
PressedSample == active_tool.name \in StrokeTools /\ samples' = samples + 1

\* C32: a pressed sample of a stroke gesture changes no layer, not the selection,
\* not the composite dirty flag and not the command stack: the tool stays the
\* same tool and only its scratch state may change.
C32_PressedTouchesScratchOnly ==
    [][PressedSample
       => /\ UNCHANGED <<layers, selection, composite_dirty, stack, active_layer>>
          /\ ev'.op # "push"
          /\ active_tool'.name = active_tool.name]_vars

\* a gesture of two pressed samples has drawn into the scratch buffer, above a
\* committed command and a rendered composite
C32_Witness ==
    /\ Stroking(active_tool)
    /\ samples = MaxSamples
    /\ Drawn(active_tool) # {}
    /\ stack.cursor > 0
    /\ ~composite_dirty
    /\ Buffers(layers) = hist[stack.cursor + 1]

\* the step pushed the command of a stroke tool's commit
StrokePushed == ev'.op = "push" /\ active_tool.name \in StrokeTools

\* C33: a stroke tool's commit changes only pixels of the active layer that lie
\* inside the rectangle of the command it emits and have nonzero alpha in the
\* scratch buffer; every other pixel of that layer, the layer's other fields,
\* every other layer, the selection, the active-layer index and the commands
\* below the cursor are unchanged.
C33_CommitWritesStrokeOnly ==
    [][StrokePushed
       => LET cmd == stack'.commands[stack'.cursor]
              before == layers[active_layer + 1]
              after == layers'[active_layer + 1]
          IN /\ cmd.layer_index = active_layer
             /\ Len(layers') = Len(layers)
             /\ \A i \in 1 .. Len(layers) : i # active_layer + 1 => layers'[i] = layers[i]
             /\ after = [before EXCEPT !.data.buffer = after.data.buffer]
             /\ <<after.data.buffer.w, after.data.buffer.h>>
                  = <<before.data.buffer.w, before.data.buffer.h>>
             /\ \A c \in Coords(before.data.buffer.w, before.data.buffer.h) :
                  after.data.buffer.px[c] # before.data.buffer.px[c]
                  => /\ cmd.x <= c[1] /\ c[1] < cmd.x + cmd.new_patch.w
                     /\ cmd.y <= c[2] /\ c[2] < cmd.y + cmd.new_patch.h
                     /\ active_tool.layer.px[c][4] > 0
             /\ UNCHANGED <<selection, active_layer>>
             /\ SubSeq(stack'.commands, 1, stack.cursor)
                  = SubSeq(stack.commands, 1, stack.cursor)]_vars

\* a second stroke was committed on the upper of two Raster layers, and a pixel
\* of the command's rectangle that the stroke did not cover kept its value
C33_Witness ==
    /\ ev.op = "push"
    /\ active_tool.name \in StrokeTools
    /\ stack.cursor = 2
    /\ Len(layers) = 2
    /\ Pushed.layer_index = 1
    /\ AfterPush # BeforePush
    /\ layers[1].data.kind = "Raster"
    /\ \E c \in Coords(AfterPush.w, AfterPush.h) \ Pushed.stroke :
         /\ InPatch(c, [x |-> Pushed.x, y |-> Pushed.y,
                        w |-> Pushed.new_patch.w, h |-> Pushed.new_patch.h])
         /\ AfterPush.px[c] = BeforePush.px[c]

\* the step is the update of a pointer release
ReleaseStep == samples' = 0 /\ ev'.op \in {"release", "push", "panic"}

\* the tool has no dirty rectangle, or one that the canvas cuts down to zero
\* width or zero height
NothingToCommit(tool) ==
    \/ ~IsSome(tool.dirty_rect)
    \/ ClampToCanvas(Unwrap(tool.dirty_rect)).w = 0
    \/ ClampToCanvas(Unwrap(tool.dirty_rect)).h = 0

C34_NoRectangle ==
    /\ ev.op = "release"
    /\ ~composite_dirty
    /\ Unwrap(ev.before).tool.name \in StrokeTools
    /\ ~IsSome(Unwrap(ev.before).tool.dirty_rect)

\* the tool holds no point of a gesture
NoGesturePoints(tool) ==
    CASE tool.name = "Brush" -> ~IsSome(tool.last_pos) /\ ~IsSome(tool.stabilized_pos)
      [] tool.name = "Eraser" -> ~IsSome(tool.last_pos)
      [] OTHER -> ~IsSome(tool.start_pos) /\ ~IsSome(tool.current_pos)

\* C35: after the update of a release that a stroke tool handled and returned
\* from, with or without a command, the tool holds no dirty rectangle and no
\* gesture point and its live preview is none; after the update of a pressed
\* sample the live preview is the scratch buffer.
C35_ReleaseEmptiesGesture ==
    [][/\ (active_tool.name \in StrokeTools /\ ReleaseStep /\ ~fault')
          => /\ active_tool'.name = active_tool.name
             /\ ~IsSome(active_tool'.dirty_rect)
             /\ NoGesturePoints(active_tool')
             /\ get_temp_layer(active_tool') = None
       /\ (PressedSample /\ ~fault')
          => /\ IsSome(active_tool'.dirty_rect)
             /\ get_temp_layer(active_tool') = Some(active_tool'.layer)]_vars

\* a release found a line gesture that clamps to nothing and emptied it
C35_Witness ==
    /\ ev.op = "release"
    /\ ~fault
    /\ Unwrap(ev.before).tool.name = "Line"
    /\ IsSome(Unwrap(ev.before).tool.start_pos)
    /\ IsSome(get_temp_layer(Unwrap(ev.before).tool))
    /\ active_tool.name = "Line"
    /\ NoGesturePoints(active_tool)
    /\ get_temp_layer(active_tool) = None

\* a release emitted the command of a line and emptied the gesture
C35_AfterCommit ==
    /\ ev.op = "push"
    /\ ev.tool = "Line"
    /\ active_tool.name = "Line"
    /\ NoGesturePoints(active_tool)
    /\ get_temp_layer(active_tool) = None

(***************************************************************************)
(* Properties of the Transform tool's floating state                       *)
(***************************************************************************)
\* C36: after the update in which the Transform tool returns its command, the
\* floating buffer, the placement rectangle and the pick-up snapshot are none
\* and the committed flag is false.
C36_AsStated ==
    (ev.op = "push" /\ ev.tool = "Transform")
    => /\ active_tool.floating_buffer = None
       /\ active_tool.current_rect = None
       /\ active_tool.original_layer_snapshot = None
       /\ ~active_tool.committed

(***************************************************************************)
(* SpecPick: TransformTool::update on an opened image under a selection    *)
(* mask of any shape, as the lasso can leave it: none, empty, one pixel,   *)
(* two pixels on a diagonal, or the whole canvas.  The pointer samples are *)
(* the corners of the canvas and two points off the canvas.                *)
(***************************************************************************)
MaskOfPixels(S) ==
    [w |-> CanvasW, h |-> CanvasH,
     px |-> [c \in Coords(CanvasW, CanvasH) |-> IF c \in S THEN 255 ELSE 0]]

PickMasks ==
    {MaskOfPixels(S) : S \in {{}, {<<CanvasW - 1, CanvasH - 1>>},
                              {<<0, 0>>, <<1, 1>>}, Coords(CanvasW, CanvasH)}}

PickImages == {f \in Files : f.px[<<0, 0>>] = Hidden} \cup {Striped}

PickPoints == Corners \cup {<<CanvasW + 2, 0>>, <<-3, -3>>}

InitPick ==
    \E f \in PickImages :
      LET store == StoreFromFile(f)
      IN /\ width = store.width
         /\ height = store.height
         /\ layers = store.layers
         /\ active_layer = store.active_layer
         /\ composite = store.composite
         /\ composite_dirty = store.composite_dirty
         /\ selection \in {None} \cup {Some(m) : m \in PickMasks}
         /\ stack = StackNew
         /\ active_tool = TransformNew
         /\ saved = None
         /\ fault = FALSE
         /\ binary \in Builds
         /\ ev = Event("other", 0, "")
         /\ hist = <<Buffers(store.layers)>>
         /\ pre_release = None
         /\ discarded = {}
         /\ serial = 0
         /\ samples = 0

NextPick ==
    \/ \E p \in PickPoints : Press(p, Primary)
    \/ Release
    \/ Idle
    \/ Confirm
    \/ Deselect

SpecPick == InitPick /\ [][NextPick]_vars

\* TransformTool::update calls pick_up_selection in this state, and the mask
\* selects a pixel of the active layer's buffer
PickUpDue ==
    /\ active_tool.name = "Transform"
    /\ ~Floating(active_tool)
    /\ ~active_tool.committed
    /\ IsSome(selection)
    /\ \E c \in Coords(CanvasW, CanvasH) : Unwrap(selection).px[c] > 0
    /\ active_layer < Len(layers)
    /\ HasBuffer(layers[active_layer + 1].data)

\* C37: a pick-up copies exactly the selected pixels of the active layer into a
\* floating buffer of the size of the mask's tight bounding box, leaving the
\* unselected positions of the buffer transparent; it sets exactly the selected
\* pixels of the layer to transparent and leaves the others, marks the composite
\* dirty and sets the placement rectangle to the bounding box.
C37_PickUp ==
    (PickUpDue /\ ~fault)
    => LET mask == Unwrap(selection)
           sel == {c \in Coords(mask.w, mask.h) : mask.px[c] > 0}
           x0 == SetMin({c[1] : c \in sel})
           y0 == SetMin({c[2] : c \in sel})
           x1 == SetMax({c[1] : c \in sel}) + 1
           y1 == SetMax({c[2] : c \in sel}) + 1
           before == layers[active_layer + 1].data.buffer
           picked == pick_up_selection(active_tool, St)
           after == picked.layers[active_layer + 1].data.buffer
           floating == Unwrap(picked.tool.floating_buffer)
       IN /\ ~picked.fault
          /\ <<floating.w, floating.h>> = <<x1 - x0, y1 - y0>>
          /\ \A c \in Coords(floating.w, floating.h) :
               floating.px[c] = IF <<x0 + c[1], y0 + c[2]>> \in sel
                                THEN before.px[<<x0 + c[1], y0 + c[2]>>]
                                ELSE Transparent
          /\ \A c \in Coords(before.w, before.h) :
               after.px[c] = IF c \in sel THEN Transparent ELSE before.px[c]
          /\ \A i \in 1 .. Len(layers) :
               i # active_layer + 1 => picked.layers[i] = layers[i]
          /\ picked.marked
          /\ picked.tool.current_rect = Some(MkRect(x0, y0, x1, y1))

\* two pixels on a diagonal were picked up from the striped image: the floating
\* buffer is 2x2 with two transparent positions, and the two pixels between
\* them are still on the layer
C37_Witness ==
    /\ Floating(active_tool)
    /\ ~fault
    /\ stack.cursor = 0
    /\ selection = Some(MaskOfPixels({<<0, 0>>, <<1, 1>>}))
    /\ active_tool.original_layer_snapshot = Some(Striped)
    /\ Unwrap(active_tool.floating_buffer).px
         = (<<0, 0>> :> Black @@ <<1, 0>> :> Transparent
            @@ <<0, 1>> :> Transparent @@ <<1, 1>> :> White)
    /\ layers[1].data.buffer.px[<<0, 0>>] = Transparent
    /\ layers[1].data.buffer.px[<<1, 0>>] = White
    /\ layers[1].data.buffer.px[<<0, 1>>] = Black

\* the selection is none or its mask selects no pixel
NothingSelected ==
    \/ selection = None
    \/ \A c \in Coords(Unwrap(selection).w, Unwrap(selection).h) :
         Unwrap(selection).px[c] = 0

\* the floating state of the Transform tool
FloatingState(tool) ==
    <<tool.floating_buffer, tool.source_rect, tool.current_rect,
      tool.original_layer_snapshot>>

\* the step is one call of the active tool's update
UpdateStep == samples' # samples \/ ev'.op \in {"release", "push", "panic"}

\* C38 as the spec states it, of a tool that holds no floating buffer: while the
\* selection is none or selects no pixel, an update of the Transform tool leaves
\* the layers, the tool's floating state and the command stack unchanged and
\* emits no command.
C38_AsStated ==
    [][(active_tool.name = "Transform" /\ ~Floating(active_tool)
        /\ NothingSelected /\ UpdateStep)
       => /\ layers' = layers
          /\ FloatingState(active_tool') = FloatingState(active_tool)
          /\ stack' = stack
          /\ ev'.op # "push"]_vars

\* the next update of the Transform tool commits the floating buffer
Committing(tool) ==
    /\ tool.name = "Transform"
    /\ tool.committed
    /\ IsSome(tool.floating_buffer)
    /\ IsSome(tool.current_rect)
    /\ IsSome(tool.original_layer_snapshot)

\* C39: a Transform commit does not fault, whatever the placement rectangle
\* (zero-size, inverted, partly or wholly off the canvas); it pushes exactly one
\* command, the layer's buffer keeps the size of the canvas, and the pixels it
\* changes lie on the canvas within the rectangle of max(width, 1) by
\* max(height, 1) pixels at the placement rectangle's origin.
C39_CommitAnyRectangle ==
    [][(Committing(active_tool) /\ ~fault /\ active_tool' # active_tool)
       => LET current == Unwrap(active_tool.current_rect)
              lx == active_tool.layer_index + 1
              before == layers[lx].data.buffer
              after == layers'[lx].data.buffer
              nw == IF RectWidth(current) > 1 THEN RectWidth(current) ELSE 1
              nh == IF RectHeight(current) > 1 THEN RectHeight(current) ELSE 1
          IN /\ ~fault'
             /\ ev'.op = "push"
             /\ stack'.cursor = stack.cursor + 1
             /\ Len(stack'.commands) = stack.cursor + 1
             /\ stack'.commands[stack'.cursor].name = "Transform"
             /\ <<after.w, after.h>> = <<CanvasW, CanvasH>>
             /\ DOMAIN after.px = Coords(CanvasW, CanvasH)
             /\ \A c \in Coords(CanvasW, CanvasH) :
                  after.px[c] # before.px[c]
                  => /\ current.minx <= c[1] /\ c[1] < current.minx + nw
                     /\ current.miny <= c[2] /\ c[2] < current.miny + nh
             /\ \A i \in 1 .. Len(layers) : i # lx => layers'[i] = layers[i]]_vars

\* a commit has just pushed its command for a placement rectangle that is
\* inverted and lies wholly off the canvas
C39_Witness ==
    /\ ev.op = "push"
    /\ ev.tool = "Transform"
    /\ ~fault
    /\ RectWidth(Unwrap(active_tool.current_rect)) < 0
    /\ Unwrap(active_tool.current_rect).minx >= CanvasW

\* the same for a zero-size rectangle on the canvas
C39_ZeroSize ==
    /\ ev.op = "push"
    /\ ev.tool = "Transform"
    /\ ~fault
    /\ RectWidth(Unwrap(active_tool.current_rect)) = 0
    /\ Unwrap(active_tool.current_rect).minx \in 0 .. CanvasW
    /\ Unwrap(active_tool.current_rect).miny \in 0 .. CanvasH

\* the same for a rectangle partly off the canvas whose stamp changed the layer
C39_PartlyOff ==
    /\ ev.op = "push"
    /\ ev.tool = "Transform"
    /\ ~fault
    /\ Unwrap(active_tool.current_rect).minx < 0
    /\ Unwrap(active_tool.current_rect).maxx > 0
    /\ RectHeight(Unwrap(active_tool.current_rect)) > 0
    /\ stack.commands[stack.cursor].new_patch # stack.commands[stack.cursor].old_patch

(***************************************************************************)
(* The composite and the layers that are not visible (SpecClip).  The      *)
(* layer stacks are those of SpecClip and the same stacks under one more   *)
(* visible layer; the pixels of a hidden layer are replaced by each of the *)
(* buffers of ClipData.                                                    *)
(***************************************************************************)
ClipBuffers == {d.buffer : d \in {e \in ClipData : HasBuffer(e)}}

ClipTops == {l \in ClipLayers : l.opacity = <<1, 2>> /\ l.data = Raster(Striped)}

Stacks == {layers} \cup {Append(layers, top) : top \in ClipTops}

Repainted(ls, i, buffer) == [ls EXCEPT ![i].data.buffer = buffer]

\* layer i of ls is hidden and holds a buffer
HiddenBuffer(ls, i) == ~ls[i].visible /\ HasBuffer(ls[i].data)

\* layer i of ls lies directly below a visible clipped layer
MasksVisible(ls, i) == i < Len(ls) /\ ls[i + 1].visible /\ ls[i + 1].clipped

\* C40 as the spec states it: the composite does not change when the pixels of
\* a layer that is not visible change, whatever the clip flags of the layers
\* above it.
C40_AsStated ==
    \A i \in 1 .. Len(layers) :
      HiddenBuffer(layers, i)
      => \A buffer \in ClipBuffers :
           composite_layers(width, height, Repainted(layers, i, buffer))
             = composite_layers(width, height, layers)

\* C40, amended: the composite does not change when the pixels of a layer that
\* is not visible change, unless the layer directly above it is visible and
\* clipped (the hidden layer's buffer is then that layer's clip mask).
C40_HiddenContent ==
    \A ls \in Stacks : \A i \in 1 .. Len(ls) :
      (HiddenBuffer(ls, i) /\ ~MasksVisible(ls, i))
      => \A buffer \in ClipBuffers :
           composite_layers(width, height, Repainted(ls, i, buffer))
             = composite_layers(width, height, ls)

\* the rendered composite of a hidden patchy layer under a hidden clipped layer:
\* it is empty, and stays so when the bottom layer is repainted opaque red
C40_Witness ==
    /\ ~composite_dirty
    /\ Len(layers) = 2
    /\ HiddenBuffer(layers, 1)
    /\ layers[1].data = Raster(Patchy)
    /\ ~layers[2].visible
    /\ layers[2].clipped
    /\ layers[2].data = Raster(Striped)
    /\ composite = NewBuffer(CanvasW, CanvasH)
    /\ composite_layers(width, height,
                        Repainted(layers, 1, FromPixel(CanvasW, CanvasH, Red)))
         = composite

=============================================================================
